---- MODULE Spec2Model ----
(***************************************************************************)
(* Model of the device-aware action router (InputMapper) of the           *)
(* UniversalToolKit for Horizon Worlds: the classification cache, the     *)
(* action registry and the dispatcher, as written in src/src/inputMapper.ts*)
(***************************************************************************)
EXTENDS Integers, Sequences, FiniteSets, TLC

\* ------------------------------------------------------------------------
\* Bounds of the model
\* ------------------------------------------------------------------------

\* number of distinct handler families a caller can register (f.., g..)
NumTags == 2
\* cap of the live-participant counter
MaxCount == 2
\* number of UniversalDoor components connected to the InputMapper
NumDoors == 2
\* longest door animation, in frames scheduled after the first
MaxFrames == 2
\* number of task functions created for a stack
MaxTasks == 3
\* number of run() / spread() calls of a stack that pass the isRunning test
MaxCalls == 2

\* ------------------------------------------------------------------------
\* Types of the program
\* ------------------------------------------------------------------------

\* type DeviceType = 'vr' | 'mobile' | 'desktop'
DeviceType == {"vr", "mobile", "desktop"}

\* the values player.deviceType.get() can produce: the platform's enumeration,
\* any other value, or an exception ("Throws")
RawSignals == {"VR", "Mobile", "Desktop", "Other", "Throws"}

\* the participants of the model and what player.name.get() yields for each:
\* a name, the empty string, the sentinel 'Server', or an exception
AllPlayers == {"p1", "p2", "srv", "anon", "ghost"}
NameThrows == "<name.get() throws>"
PlayerName(p) ==
    CASE p = "p1"    -> "Alice"
      [] p = "p2"    -> "Bob"
      [] p = "srv"   -> "Server"
      [] p = "anon"  -> ""
      [] p = "ghost" -> NameThrows

ActionNames == {"x", "y"}

\* JavaScript's undefined as the value of a handler property
Undefined == <<0, "undefined">>
\* a handler is a closure of its caller: the model names it by the family
\* (tag) the caller took it from and the property it was written under
Handler(t, k) == <<t, k>>
Tags == 1..NumTags

\* An ActionHandlers object: its own properties in insertion order, each a
\* pair <<key, value>>, the value a handler or undefined; keys are distinct.
KeyOrders ==
    {ks \in UNION {[1..n -> DeviceType] : n \in 0..3} :
        \A i, j \in DOMAIN ks : i /= j => ks[i] /= ks[j]}
HandlerSetsOf(t) ==
    UNION {{[i \in DOMAIN ks |-> <<ks[i], IF i \in def THEN Handler(t, ks[i]) ELSE Undefined>>] :
                def \in SUBSET (DOMAIN ks)} : ks \in KeyOrders}
HandlerSets == UNION {HandlerSetsOf(t) : t \in Tags}

\* handlers[key]: the value of the property, undefined when there is none
Get(hs, k) ==
    IF \E i \in DOMAIN hs : hs[i][1] = k
    THEN hs[CHOOSE i \in DOMAIN hs : hs[i][1] = k][2]
    ELSE Undefined
\* Object.values(handlers)[0]
FirstValue(hs) == IF Len(hs) = 0 THEN Undefined ELSE hs[1][2]
\* the handlers a set holds
HandlersIn(hs) == {hs[i][2] : i \in DOMAIN hs} \ {Undefined}

\* Map helpers (Map.set, Map.delete, new Map())
EmptyMap == [k \in {} |-> Undefined]
Put(m, k, v) == [x \in (DOMAIN m) \cup {k} |-> IF x = k THEN v ELSE m[x]]
Delete(m, k) == [x \in (DOMAIN m) \ {k} |-> m[x]]

\* ------------------------------------------------------------------------
\* State
\* ------------------------------------------------------------------------
VARIABLES
    props,        \* the component's configuration properties
    actions,      \* Map<string, ActionHandlers>
    deviceCache,  \* Map<string, DeviceType>, keyed by player id
    playerCount,  \* live-participant counter
    raw,          \* environment: the raw device signal of each participant
    present,      \* environment: participants that joined and have not left
    last,         \* the last operation: its arguments and what it produced
    prior,        \* history: how the operation before the last one ended
    first,        \* history: what a participant's first classifying call returned
    overridden,   \* history: participants whose entry an override has written
    evicted,      \* history: the entry the leave hook removed, not yet re-classified
    left,         \* history: participants whose leave was processed, not re-joined
    forced,       \* history: the category of the override in force for a participant
    failed,       \* history: participants whose last detectDevice cached nothing
    doors,        \* the UniversalDoor components: fields, properties, timers
    doorEvent,    \* the last event a door handled
    teams,        \* TeamManager: Map<string, Player[]>
    worldPlayers, \* environment: world.players, in the platform's order
    teamEvent,    \* the last TeamManager call and the teams it found
    tasks,        \* useStack: the task array
    isRunning,    \* useStack: the flag run() and spread() test and set
    frames,       \* the calls of run() and spread() that passed the flag
    nextId,       \* the number of task functions created so far, plus one
    stackEvent    \* the last thing that happened to the stack
\* The history variables are no state of the program. The operations leave
\* them alone; a specification that needs one adds the conjunct that maintains
\* it (TrackPrior, TrackFirst, TrackLife, TrackRetry) to its steps, the others
\* NoHistory.

vars == <<props, actions, deviceCache, playerCount, raw, present, last,
          prior, first, overridden, evicted, left, forced, failed,
          doors, doorEvent, teams, worldPlayers, teamEvent,
          tasks, isRunning, frames, nextId, stackEvent>>

\* one diagnostic: console.log / console.warn / console.error and what it reports
Diag(level, what) == <<level, what>>
\* diagnostics emitted only in debugMode
IfDebug(d) == IF props.debugMode THEN <<d>> ELSE <<>>

\* last.known: the key the operation looked up (action name, player id) had an
\* entry; last.device: the category detectDevice returned inside the operation
NoOp == [op |-> "init", name |-> "-", player |-> "-", arg |-> "-",
         ret |-> "-", device |-> "-", invoked |-> <<>>, raised |-> FALSE,
         diags |-> <<>>, reads |-> 0, threw |-> FALSE, known |-> FALSE,
         dropped |-> FALSE]

\* ------------------------------------------------------------------------
\* Pure parts of the operations
\* ------------------------------------------------------------------------

\* isRealPlayer: the name is read inside a try; a failed read is "not real"
isRealPlayer(p) ==
    /\ PlayerName(p) /= NameThrows
    /\ PlayerName(p) /= ""
    /\ PlayerName(p) /= "Server"

\* faulty variant: every raw value but VR is taken for a desktop
SimpleType_OnlyVR(sig) == IF sig = "VR" THEN "vr" ELSE "desktop"

\* the conversion of the platform's device type to DeviceType
SimpleType(sig) ==
    IF sig = "VR" THEN "vr" ELSE IF sig = "Mobile" THEN "mobile" ELSE "desktop"

\* faulty variant: the cache is not consulted, the raw signal is read on every call
detectDevice_Rereads(cache, p) ==
    IF ~isRealPlayer(p)
    THEN [ret |-> "desktop", cache |-> cache,
          diags |-> IfDebug(Diag("warn", "skipServerPlayer")), reads |-> 0]
    ELSE IF raw[p] = "Throws"
    THEN [ret |-> "desktop", cache |-> cache,
          diags |-> IfDebug(Diag("error", "detectError")), reads |-> 1]
    ELSE [ret |-> SimpleType(raw[p]), cache |-> Put(cache, p, SimpleType(raw[p])),
          diags |-> IfDebug(Diag("log", "detected")), reads |-> 1]

\* faulty variant: the detected category is returned but not stored
detectDevice_Forgets(cache, p) ==
    IF p \in DOMAIN cache
    THEN [ret |-> cache[p], cache |-> cache, diags |-> <<>>, reads |-> 0]
    ELSE IF ~isRealPlayer(p)
    THEN [ret |-> "desktop", cache |-> cache,
          diags |-> IfDebug(Diag("warn", "skipServerPlayer")), reads |-> 0]
    ELSE IF raw[p] = "Throws"
    THEN [ret |-> "desktop", cache |-> cache,
          diags |-> IfDebug(Diag("error", "detectError")), reads |-> 1]
    ELSE [ret |-> SimpleType(raw[p]), cache |-> cache,
          diags |-> IfDebug(Diag("log", "detected")), reads |-> 1]

\* faulty variant: the desktop of a failure or of the skip is stored as well
detectDevice_CachesFailure(cache, p) ==
    IF p \in DOMAIN cache
    THEN [ret |-> cache[p], cache |-> cache, diags |-> <<>>, reads |-> 0]
    ELSE IF ~isRealPlayer(p)
    THEN [ret |-> "desktop", cache |-> Put(cache, p, "desktop"),
          diags |-> IfDebug(Diag("warn", "skipServerPlayer")), reads |-> 0]
    ELSE IF raw[p] = "Throws"
    THEN [ret |-> "desktop", cache |-> Put(cache, p, "desktop"),
          diags |-> IfDebug(Diag("error", "detectError")), reads |-> 1]
    ELSE [ret |-> SimpleType(raw[p]), cache |-> Put(cache, p, SimpleType(raw[p])),
          diags |-> IfDebug(Diag("log", "detected")), reads |-> 1]

\* detectDevice(player): the category returned, the cache afterwards, the
\* diagnostics emitted and the number of reads of the raw signal
detectDevice(cache, p) ==
    IF p \in DOMAIN cache
    THEN [ret |-> cache[p], cache |-> cache, diags |-> <<>>, reads |-> 0]
    ELSE IF ~isRealPlayer(p)
    THEN [ret |-> "desktop", cache |-> cache,
          diags |-> IfDebug(Diag("warn", "skipServerPlayer")), reads |-> 0]
    ELSE IF raw[p] = "Throws"
    THEN [ret |-> "desktop", cache |-> cache,
          diags |-> IfDebug(Diag("error", "detectError")), reads |-> 1]
    ELSE [ret |-> SimpleType(raw[p]), cache |-> Put(cache, p, SimpleType(raw[p])),
          diags |-> IfDebug(Diag("log", "detected")), reads |-> 1]

\* faulty variant: the desktop handler is preferred to the participant's own
SelectHandler_DesktopFirst(hs, deviceType, fallbackToDesktop) ==
    LET specific == IF fallbackToDesktop /\ Get(hs, "desktop") /= Undefined
                    THEN Get(hs, "desktop") ELSE Get(hs, deviceType)
    IN IF specific = Undefined THEN FirstValue(hs) ELSE specific

\* faulty variant: the fallbackToDesktop step is skipped
SelectHandler_NoFallback(hs, deviceType, fallbackToDesktop) ==
    IF Get(hs, deviceType) = Undefined THEN FirstValue(hs) ELSE Get(hs, deviceType)

\* faulty variant: the last resort is the value of the last property
SelectHandler_LastValue(hs, deviceType, fallbackToDesktop) ==
    LET specific == Get(hs, deviceType)
        withFallback == IF specific = Undefined /\ fallbackToDesktop
                        THEN Get(hs, "desktop") ELSE specific
    IN IF withFallback /= Undefined THEN withFallback
       ELSE IF Len(hs) = 0 THEN Undefined ELSE hs[Len(hs)][2]

\* the handler trigger selects from a handler set
SelectHandler(hs, deviceType, fallbackToDesktop) ==
    LET specific == Get(hs, deviceType)
        withFallback == IF specific = Undefined /\ fallbackToDesktop
                        THEN Get(hs, "desktop") ELSE specific
    IN IF withFallback = Undefined THEN FirstValue(hs) ELSE withFallback

\* ------------------------------------------------------------------------
\* History (not program state)
\* ------------------------------------------------------------------------

\* how the operation recorded in `last` ended, in the error taxonomy, each
\* with the action name the operation was given ("-" when it takes none)
Outcome ==
    {<<k, last.name>> : k \in
        (IF last.op = "trigger" /\ last.raised THEN {"HandlerFailure"} ELSE {})
        \cup (IF last.op = "trigger" /\ ~last.known THEN {"UnregisteredAction"} ELSE {})
        \cup (IF last.op = "trigger" /\ last.known /\ last.invoked = <<>>
              THEN {"NoCompatibleHandler"} ELSE {})
        \cup (IF last.reads = 1 /\ raw[last.player] = "Throws"
              THEN {"ClassificationFailure"} ELSE {})
        \cup (IF last.op = "setDeviceOverride" /\ ~last.known
              THEN {"OverrideRejected"} ELSE {})
        \cup (IF last.op = "registerAction" /\ last.dropped THEN {"Replaced"} ELSE {})
        \cup (IF last.op = "clearAllActions" THEN {"Cleared"} ELSE {})}

\* the InputMapper handles no call
MapperIdle == UNCHANGED <<props, actions, deviceCache, playerCount, raw, present, last>>
\* the TeamManager handles no call
TeamsIdle == UNCHANGED <<teams, worldPlayers, teamEvent>>
\* the components the InputMapper and the doors do not know stay as they are
\* the stack handles no call and none of its tasks settles
StackIdle == UNCHANGED <<tasks, isRunning, frames, nextId, stackEvent>>
OthersIdle == TeamsIdle /\ StackIdle
HistoryOnly == UNCHANGED <<prior, first, overridden, evicted, left, forced, failed>>
DoorsOnly == UNCHANGED <<doors, doorEvent>>
\* the history variables stay as they are
HistoryIdle == HistoryOnly /\ OthersIdle
\* no door handles an event
DoorsIdle == DoorsOnly /\ OthersIdle
NoHistory == HistoryIdle /\ DoorsIdle

\* prior: how the operation before the one now taking place ended
TrackPrior ==
    /\ prior' = Outcome
    /\ UNCHANGED <<first, overridden, evicted, left, forced, failed>>
    /\ DoorsIdle

\* first[p]: what the first call of detectDevice(p) whose read of the raw
\* signal succeeded returned, since p last left;
\* overridden: the participants an effective setDeviceOverride has named,
\* since they last left
TrackFirst ==
    LET p == last'.player
        called == last'.device /= "-"
    IN /\ first' =
            IF last'.op = "onPlayerLeave" THEN [first EXCEPT ![p] = "none"]
            ELSE IF called /\ first[p] = "none" /\ last'.reads = 1 /\ raw[p] /= "Throws"
            THEN [first EXCEPT ![p] = last'.device]
            ELSE first
       /\ overridden' =
            IF last'.op = "onPlayerLeave" THEN overridden \ {p}
            ELSE IF last'.op = "setDeviceOverride" /\ last'.known
            THEN overridden \cup {p}
            ELSE overridden
       /\ UNCHANGED <<prior, evicted, left, forced, failed>>
       /\ DoorsIdle

\* evicted[p]: the category of the entry onPlayerLeave(p) removed, "pending"
\*   until an operation classifies p again, "next" once that operation has
\*   taken place; forgotten by the classification after it and by an override;
\* left: the participants whose leave notification was processed and who
\*   have not joined again;
\* forced[p]: the category the last effective setDeviceOverride(p, .) wrote,
\*   until p's entry is removed by the leave hook
NotEvicted == <<"none", "-">>
TrackLife ==
    LET p == last'.player
        op == last'.op
    IN /\ evicted' =
            IF op = "onPlayerLeave"
            THEN (IF p \in DOMAIN deviceCache
                  THEN [evicted EXCEPT ![p] = <<deviceCache[p], "pending">>]
                  ELSE evicted)
            ELSE IF last'.device /= "-" /\ evicted[p][2] = "pending"
            THEN [evicted EXCEPT ![p] = <<evicted[p][1], "next">>]
            ELSE IF last'.device /= "-" \/ (op = "setDeviceOverride" /\ last'.known)
            THEN [evicted EXCEPT ![p] = NotEvicted]
            ELSE evicted
       /\ left' =
            IF op = "onPlayerLeave" THEN left \cup {p}
            ELSE IF op = "onPlayerJoin" THEN left \ {p}
            ELSE left
       /\ forced' =
            IF op = "onPlayerLeave" THEN [forced EXCEPT ![p] = "none"]
            ELSE IF op = "setDeviceOverride" /\ last'.known
            THEN [forced EXCEPT ![p] = last'.arg]
            ELSE forced
       /\ UNCHANGED <<prior, first, overridden, failed>>
       /\ DoorsIdle

\* failed[p]: "pending" when the last detectDevice(p) ended in a classification
\*   failure or in the skip (it left p without entry), "recovered" when the
\*   detectDevice(p) after such a call read the signal and p has its entry
TrackRetry ==
    LET p == last'.player
    IN /\ failed' =
            IF last'.op /= "detectDevice" THEN failed
            ELSE IF p \notin DOMAIN deviceCache' THEN [failed EXCEPT ![p] = "pending"]
            ELSE IF failed[p] = "pending" /\ last'.reads = 1
            THEN [failed EXCEPT ![p] = "recovered"]
            ELSE [failed EXCEPT ![p] = "none"]
       /\ UNCHANGED <<prior, first, overridden, evicted, left, forced>>
       /\ DoorsIdle

\* ------------------------------------------------------------------------
\* Operations
\* ------------------------------------------------------------------------

\* the properties of a door: inputMapper and interactionTrigger are set or
\* not, autoCloseDelay is 0 (never) or the default 5 seconds
Doors == 1..NumDoors
DoorProps == [inputMapper : BOOLEAN, autoCloseDelay : {0, 5}, requireKeycard : BOOLEAN]
DefaultDoorProps == [inputMapper |-> TRUE, autoCloseDelay |-> 5, requireKeycard |-> FALSE]
\* a UniversalDoor after construction; started: preStart has run; frames: the
\* frames the running animation still needs; animations: animations in
\* progress; pending: auto-close timers scheduled that have not fired
NewDoor(pr) ==
    [props |-> pr, started |-> FALSE, inputMapperComponent |-> FALSE,
     isOpen |-> FALSE, isAnimating |-> FALSE, autoCloseTimer |-> 0,
     frames |-> 0, animations |-> 0, pending |-> 0]
NoDoorEvent == [op |-> "init", door |-> 0, player |-> "-"]

InitMapper ==
    /\ props \in [debugMode : BOOLEAN, enableDeviceOverride : BOOLEAN,
                  fallbackToDesktop : BOOLEAN]
    /\ actions = EmptyMap
    /\ deviceCache = EmptyMap
    /\ playerCount = 0
    /\ raw \in [AllPlayers -> RawSignals]
    /\ present = {}
    /\ last = NoOp
    /\ prior = {}
    /\ first = [p \in AllPlayers |-> "none"]
    /\ overridden = {}
    /\ evicted = [p \in AllPlayers |-> <<"none", "-">>]
    /\ left = {}
    /\ forced = [p \in AllPlayers |-> "none"]
    /\ failed = [p \in AllPlayers |-> "none"]

\* the TeamManager as constructed: an empty Map, preStart not yet run
NoTeamEvent == [op |-> "init", player |-> "-", team |-> "-", before |-> EmptyMap]
InitTeams ==
    /\ teams = EmptyMap
    /\ worldPlayers = <<>>
    /\ teamEvent = NoTeamEvent
\* useStack() as called: no task, not running
NoStackEvent == [op |-> "init", frame |-> 0, started |-> 0]
InitStack ==
    /\ tasks = <<>>
    /\ isRunning = FALSE
    /\ frames = <<>>
    /\ nextId = 1
    /\ stackEvent = NoStackEvent
InitOthers == InitTeams /\ InitStack

Init ==
    /\ InitMapper
    /\ doors = [d \in Doors |-> NewDoor(DefaultDoorProps)]
    /\ doorEvent = NoDoorEvent
    /\ InitOthers

\* faulty variant: a second registration is merged into the first
registerAction_Merges(n, hs) ==
    LET old == IF n \in DOMAIN actions THEN actions[n] ELSE <<>>
        kept == SelectSeq(old, LAMBDA e : \A i \in DOMAIN hs : hs[i][1] /= e[1])
    IN /\ actions' = Put(actions, n, hs \o kept)
       /\ last' = [NoOp EXCEPT !.op = "registerAction", !.name = n, !.arg = hs,
                       !.known = (n \in DOMAIN actions),
                       !.diags = (IF n \in DOMAIN actions
                                  THEN <<Diag("warn", "overwrite")>> ELSE <<>>)
                                 \o IfDebug(Diag("log", "registered"))]
       /\ UNCHANGED <<props, deviceCache, playerCount, raw, present>>

\* registerAction(actionName, handlers)
registerAction(n, hs) ==
    /\ actions' = Put(actions, n, hs)
    /\ last' = [NoOp EXCEPT !.op = "registerAction", !.name = n, !.arg = hs,
                    !.known = (n \in DOMAIN actions),
                    !.dropped = (n \in DOMAIN actions
                                 /\ HandlersIn(actions[n]) \ HandlersIn(hs) /= {}),
                    !.diags = (IF n \in DOMAIN actions
                               THEN <<Diag("warn", "overwrite")>> ELSE <<>>)
                              \o IfDebug(Diag("log", "registered"))]
    /\ UNCHANGED <<props, deviceCache, playerCount, raw, present>>

\* trigger, the action has no registration: the warning and the return
unregistered(n, p) ==
    /\ last' = [NoOp EXCEPT !.op = "trigger", !.name = n, !.player = p,
                    !.diags = <<Diag("warn", "noHandlers")>>]
    /\ UNCHANGED <<props, actions, deviceCache, playerCount, raw, present>>

\* faulty variant: nothing is reported when no handler is found
execute_Silent(n, p, d, handler, raises) ==
    [NoOp EXCEPT !.op = "trigger", !.name = n, !.player = p,
         !.known = TRUE, !.device = d.ret, !.reads = d.reads,
         !.invoked = (IF handler /= Undefined THEN <<handler>> ELSE <<>>),
         !.raised = (handler /= Undefined /\ raises),
         !.diags = d.diags \o
            (IF handler = Undefined THEN <<>>
             ELSE IF raises \/ (props.debugMode /\ PlayerName(p) = NameThrows)
             THEN <<Diag("error", "handlerError")>>
             ELSE IfDebug(Diag("log", "executed")))]

\* faulty variant: the selected handler is called a second time after it returned
execute_Twice(n, p, d, handler, raises) ==
    [NoOp EXCEPT !.op = "trigger", !.name = n, !.player = p,
         !.known = TRUE, !.device = d.ret, !.reads = d.reads,
         !.invoked = (IF handler = Undefined THEN <<>>
                      ELSE IF raises THEN <<handler>> ELSE <<handler, handler>>),
         !.raised = (handler /= Undefined /\ raises),
         !.diags = d.diags \o
            (IF handler = Undefined
             THEN <<Diag("warn", "noCompatibleHandler")>>
             ELSE IF raises \/ (props.debugMode /\ PlayerName(p) = NameThrows)
             THEN <<Diag("error", "handlerError")>>
             ELSE IfDebug(Diag("log", "executed")))]

\* trigger, the end: the selected handler is called inside a try, a failure
\* (of the handler, or of the debug log's read of context.player.name) is
\* reported; without a handler a warning. What the call leaves in `last`.
execute(n, p, d, handler, raises) ==
    [NoOp EXCEPT !.op = "trigger", !.name = n, !.player = p,
         !.known = TRUE, !.device = d.ret, !.reads = d.reads,
         !.invoked = (IF handler /= Undefined THEN <<handler>> ELSE <<>>),
         !.raised = (handler /= Undefined /\ raises),
         !.diags = d.diags \o
            (IF handler = Undefined
             THEN <<Diag("warn", "noCompatibleHandler")>>
             ELSE IF raises \/ (props.debugMode /\ PlayerName(p) = NameThrows)
             THEN <<Diag("error", "handlerError")>>
             ELSE IfDebug(Diag("log", "executed")))]

\* faulty variant: a failing handler undoes the classification made for the dispatch
dispatch_RollsBack(n, p, raises) ==
    LET d == detectDevice(deviceCache, p)
        handler == SelectHandler(actions[n], d.ret, props.fallbackToDesktop)
    IN /\ deviceCache' = IF handler /= Undefined /\ raises THEN deviceCache ELSE d.cache
       /\ last' = execute(n, p, d, handler, raises)
       /\ UNCHANGED <<props, actions, playerCount, raw, present>>

\* faulty variant: a dispatch whose classification failed invokes nothing
dispatch_StopsOnFailure(n, p, raises) ==
    LET d == detectDevice(deviceCache, p)
        noEntry == p \notin DOMAIN deviceCache /\ p \notin DOMAIN d.cache
        handler == IF noEntry THEN Undefined
                   ELSE SelectHandler(actions[n], d.ret, props.fallbackToDesktop)
    IN /\ deviceCache' = d.cache
       /\ last' = execute(n, p, d, handler, raises)
       /\ UNCHANGED <<props, actions, playerCount, raw, present>>

\* trigger, the action is registered: classify, select, execute
dispatch(n, p, raises) ==
    LET d == detectDevice(deviceCache, p)
        handler == SelectHandler(actions[n], d.ret, props.fallbackToDesktop)
    IN /\ deviceCache' = d.cache
       /\ last' = execute(n, p, d, handler, raises)
       /\ UNCHANGED <<props, actions, playerCount, raw, present>>

\* faulty variant: the participant is classified before the registry is looked up
trigger_ClassifiesFirst(n, p, raises) ==
    IF n \notin DOMAIN actions
    THEN LET d == detectDevice(deviceCache, p)
         IN /\ deviceCache' = d.cache
            /\ last' = [NoOp EXCEPT !.op = "trigger", !.name = n, !.player = p,
                            !.reads = d.reads,
                            !.diags = d.diags \o <<Diag("warn", "noHandlers")>>]
            /\ UNCHANGED <<props, actions, playerCount, raw, present>>
    ELSE dispatch(n, p, raises)

\* faulty variant: after a handler has raised the dispatcher refuses the next trigger
trigger_StuckAfterError(n, p, raises) ==
    IF n \notin DOMAIN actions \/ (last.op = "trigger" /\ last.raised)
    THEN unregistered(n, p)
    ELSE dispatch(n, p, raises)

\* trigger(actionName, context) with context.player = p; raises: whether the
\* handler that gets invoked throws
trigger(n, p, raises) ==
    IF n \notin DOMAIN actions
    THEN unregistered(n, p)
    ELSE dispatch(n, p, raises)

\* a caller's detectDevice(player)
DetectDevice(p) ==
    LET d == detectDevice(deviceCache, p)
    IN /\ deviceCache' = d.cache
       /\ last' = [NoOp EXCEPT !.op = "detectDevice", !.player = p, !.ret = d.ret,
                       !.device = d.ret, !.known = (p \in DOMAIN deviceCache),
                       !.diags = d.diags, !.reads = d.reads]
       /\ UNCHANGED <<props, actions, playerCount, raw, present>>

\* faulty variant: the override is written whatever enableDeviceOverride is
setDeviceOverride_Ungated(p, dt) ==
    /\ deviceCache' = Put(deviceCache, p, dt)
    /\ last' = [NoOp EXCEPT !.op = "setDeviceOverride", !.player = p, !.arg = dt,
                    !.known = props.enableDeviceOverride,
                    !.diags = IF ~props.enableDeviceOverride
                              THEN <<Diag("warn", "overrideDisabled")>>
                              ELSE IF props.debugMode /\ PlayerName(p) /= NameThrows
                              THEN <<Diag("log", "overrideSet")>> ELSE <<>>,
                    !.threw = (props.enableDeviceOverride /\ props.debugMode
                               /\ PlayerName(p) = NameThrows)]
    /\ UNCHANGED <<props, actions, playerCount, raw, present>>

\* faulty variant: an override does not replace an entry that exists
setDeviceOverride_KeepsExisting(p, dt) ==
    IF ~props.enableDeviceOverride
    THEN /\ last' = [NoOp EXCEPT !.op = "setDeviceOverride", !.player = p, !.arg = dt,
                         !.diags = <<Diag("warn", "overrideDisabled")>>]
         /\ UNCHANGED <<props, actions, deviceCache, playerCount, raw, present>>
    ELSE /\ deviceCache' = IF p \in DOMAIN deviceCache THEN deviceCache
                           ELSE Put(deviceCache, p, dt)
         /\ last' = [NoOp EXCEPT !.op = "setDeviceOverride", !.player = p, !.arg = dt,
                         !.known = TRUE,
                         !.diags = IF props.debugMode /\ PlayerName(p) /= NameThrows
                                   THEN <<Diag("log", "overrideSet")>> ELSE <<>>,
                         !.threw = (props.debugMode /\ PlayerName(p) = NameThrows)]
         /\ UNCHANGED <<props, actions, playerCount, raw, present>>

\* setDeviceOverride(player, deviceType)
setDeviceOverride(p, dt) ==
    IF ~props.enableDeviceOverride
    THEN /\ last' = [NoOp EXCEPT !.op = "setDeviceOverride", !.player = p, !.arg = dt,
                         !.diags = <<Diag("warn", "overrideDisabled")>>]
         /\ UNCHANGED <<props, actions, deviceCache, playerCount, raw, present>>
    ELSE /\ deviceCache' = Put(deviceCache, p, dt)
         /\ last' = [NoOp EXCEPT !.op = "setDeviceOverride", !.player = p, !.arg = dt,
                         !.known = TRUE,
                         !.diags = IF props.debugMode /\ PlayerName(p) /= NameThrows
                                   THEN <<Diag("log", "overrideSet")>> ELSE <<>>,
                         !.threw = (props.debugMode /\ PlayerName(p) = NameThrows)]
         /\ UNCHANGED <<props, actions, playerCount, raw, present>>

\* getRegisteredActions(): the keys of the registry (their order left out)
getRegisteredActions == DOMAIN actions

\* faulty variant: the clear leaves the registration made last in the registry
clearAllActions_KeepsOne ==
    /\ actions' = [n \in (DOMAIN actions) \cap {"y"} |-> actions[n]]
    /\ last' = [NoOp EXCEPT !.op = "clearAllActions",
                    !.diags = IfDebug(Diag("log", "cleared"))]
    /\ UNCHANGED <<props, deviceCache, playerCount, raw, present>>

\* clearAllActions()
clearAllActions ==
    /\ actions' = EmptyMap
    /\ last' = [NoOp EXCEPT !.op = "clearAllActions",
                    !.diags = IfDebug(Diag("log", "cleared"))]
    /\ UNCHANGED <<props, deviceCache, playerCount, raw, present>>

\* faulty variant: the join hook counts the participant and does not classify it
onPlayerJoin_Lazy(p) ==
    /\ playerCount < MaxCount
    /\ playerCount' = playerCount + 1
    /\ present' = present \cup {p}
    /\ last' = [NoOp EXCEPT !.op = "onPlayerJoin", !.player = p,
                    !.known = (p \in DOMAIN deviceCache),
                    !.diags = IF props.debugMode /\ PlayerName(p) /= NameThrows
                              THEN <<Diag("log", "joined")>> ELSE <<>>,
                    !.threw = (props.debugMode /\ PlayerName(p) = NameThrows)]
    /\ UNCHANGED <<props, actions, deviceCache, raw>>

\* onPlayerJoin(player): the OnPlayerEnterWorld hook
onPlayerJoin(p) ==
    /\ playerCount < MaxCount
    /\ LET d == detectDevice(deviceCache, p)
       IN /\ playerCount' = playerCount + 1
          /\ deviceCache' = d.cache
          /\ present' = present \cup {p}
          /\ last' = [NoOp EXCEPT !.op = "onPlayerJoin", !.player = p, !.device = d.ret,
                          !.known = (p \in DOMAIN deviceCache),
                          !.reads = d.reads,
                          !.diags = d.diags \o
                              (IF props.debugMode /\ PlayerName(p) /= NameThrows
                               THEN <<Diag("log", "joined")>> ELSE <<>>),
                          !.threw = (props.debugMode /\ PlayerName(p) = NameThrows)]
    /\ UNCHANGED <<props, actions, raw>>

\* faulty variant: the leave hook keeps the participant's cache entry
onPlayerLeave_KeepsEntry(p) ==
    /\ playerCount' = (IF playerCount - 1 > 0 THEN playerCount - 1 ELSE 0)
    /\ present' = present \ {p}
    /\ last' = [NoOp EXCEPT !.op = "onPlayerLeave", !.player = p,
                    !.known = (p \in DOMAIN deviceCache),
                    !.diags = IF props.debugMode /\ PlayerName(p) /= NameThrows
                              THEN <<Diag("log", "left")>> ELSE <<>>,
                    !.threw = (props.debugMode /\ PlayerName(p) = NameThrows)]
    /\ UNCHANGED <<props, actions, deviceCache, raw>>

\* faulty variant: the leave hook decrements the live count without the floor
onPlayerLeave_NoFloor(p) ==
    /\ playerCount' = playerCount - 1
    /\ deviceCache' = Delete(deviceCache, p)
    /\ present' = present \ {p}
    /\ last' = [NoOp EXCEPT !.op = "onPlayerLeave", !.player = p,
                    !.known = (p \in DOMAIN deviceCache),
                    !.diags = IF props.debugMode /\ PlayerName(p) /= NameThrows
                              THEN <<Diag("log", "left")>> ELSE <<>>,
                    !.threw = (props.debugMode /\ PlayerName(p) = NameThrows)]
    /\ UNCHANGED <<props, actions, raw>>

\* faulty variant: the leave hook evicts the entry and keeps the live count
onPlayerLeave_KeepsCount(p) ==
    /\ deviceCache' = Delete(deviceCache, p)
    /\ present' = present \ {p}
    /\ last' = [NoOp EXCEPT !.op = "onPlayerLeave", !.player = p,
                    !.known = (p \in DOMAIN deviceCache),
                    !.diags = IF props.debugMode /\ PlayerName(p) /= NameThrows
                              THEN <<Diag("log", "left")>> ELSE <<>>,
                    !.threw = (props.debugMode /\ PlayerName(p) = NameThrows)]
    /\ UNCHANGED <<props, actions, playerCount, raw>>

\* onPlayerLeave(player): the OnPlayerExitWorld hook
onPlayerLeave(p) ==
    /\ playerCount' = (IF playerCount - 1 > 0 THEN playerCount - 1 ELSE 0)
    /\ deviceCache' = Delete(deviceCache, p)
    /\ present' = present \ {p}
    /\ last' = [NoOp EXCEPT !.op = "onPlayerLeave", !.player = p,
                    !.known = (p \in DOMAIN deviceCache),
                    !.diags = IF props.debugMode /\ PlayerName(p) /= NameThrows
                              THEN <<Diag("log", "left")>> ELSE <<>>,
                    !.threw = (props.debugMode /\ PlayerName(p) = NameThrows)]
    /\ UNCHANGED <<props, actions, raw>>

\* faulty variant: total is taken from the cache, not from the live count
getPlayerStats_TotalFromCache ==
    [total   |-> Cardinality(DOMAIN deviceCache),
     vr      |-> Cardinality({k \in DOMAIN deviceCache : deviceCache[k] = "vr"}),
     mobile  |-> Cardinality({k \in DOMAIN deviceCache : deviceCache[k] = "mobile"}),
     desktop |-> Cardinality({k \in DOMAIN deviceCache : deviceCache[k] = "desktop"})]

\* getPlayerStats(): the live count and the cache entries of each category
getPlayerStats ==
    [total   |-> playerCount,
     vr      |-> Cardinality({k \in DOMAIN deviceCache : deviceCache[k] = "vr"}),
     mobile  |-> Cardinality({k \in DOMAIN deviceCache : deviceCache[k] = "mobile"}),
     desktop |-> Cardinality({k \in DOMAIN deviceCache : deviceCache[k] = "desktop"})]

\* a caller's getPlayerStats()
GetPlayerStats ==
    /\ last' = [NoOp EXCEPT !.op = "getPlayerStats", !.ret = getPlayerStats]
    /\ UNCHANGED <<props, actions, deviceCache, playerCount, raw, present>>

\* environment: the participant's device signal changes
SignalChanges(p, sig) ==
    /\ raw[p] /= sig
    /\ raw' = [raw EXCEPT ![p] = sig]
    /\ last' = [NoOp EXCEPT !.op = "signalChanges", !.player = p, !.arg = sig]
    /\ UNCHANGED <<props, actions, deviceCache, playerCount, present>>

\* ------------------------------------------------------------------------
\* UniversalDoor (src/src/prefabs/Door.ts)
\* ------------------------------------------------------------------------

\* the action name every door registers its handlers under
DoorAction == "door_interact"
\* the handler set registerDoorInteraction writes: three closures of door d
DoorHandlers(d) ==
    << <<"vr", Handler(d, "vr")>>, <<"mobile", Handler(d, "mobile")>>,
       <<"desktop", Handler(d, "desktop")>> >>
Frames == 1..MaxFrames

\* faulty variant: toggleDoor without the isAnimating guard
toggleDoor_Unguarded(dr, n, fails) ==
    LET t == [dr EXCEPT !.isOpen = ~dr.isOpen, !.isAnimating = TRUE,
                        !.autoCloseTimer = 0,
                        !.pending = IF dr.autoCloseTimer /= 0 THEN 0 ELSE dr.pending]
    IN IF fails THEN [t EXCEPT !.isAnimating = FALSE]
       ELSE [t EXCEPT !.frames = n, !.animations = dr.animations + 1]

\* faulty variant: toggleDoor leaves a scheduled auto-close timer in place
toggleDoor_KeepsTimer(dr, n, fails) ==
    IF dr.isAnimating THEN dr
    ELSE LET t == [dr EXCEPT !.isOpen = ~dr.isOpen, !.isAnimating = TRUE]
         IN IF fails THEN [t EXCEPT !.isAnimating = FALSE]
            ELSE [t EXCEPT !.frames = n, !.animations = dr.animations + 1]

\* toggleDoor() on the door record dr. n: the frames the animation will take
\* after its first, fails: reading the rotation throws, the promise is
\* rejected and the catch callback clears isAnimating.
toggleDoor(dr, n, fails) ==
    IF dr.isAnimating THEN dr
    ELSE LET t == [dr EXCEPT !.isOpen = ~dr.isOpen, !.isAnimating = TRUE,
                             !.autoCloseTimer = 0,
                             !.pending = IF dr.autoCloseTimer /= 0 THEN 0 ELSE dr.pending]
         IN IF fails THEN [t EXCEPT !.isAnimating = FALSE]
            ELSE [t EXCEPT !.frames = n, !.animations = dr.animations + 1]

\* handleVRInteraction / handleMobileInteraction / handleDesktopInteraction of
\* the door whose record is dr: the keycard check, then toggleDoor
handleInteraction(dr, n, fails) ==
    IF dr.props.requireKeycard /\ ~dr.isOpen THEN dr ELSE toggleDoor(dr, n, fails)

\* preStart() of door d: connectToInputMapper, registerDoorInteraction,
\* setupTriggerEvents
PreStart(d) ==
    /\ ~doors[d].started
    /\ doors' = [doors EXCEPT ![d].started = TRUE,
                              ![d].inputMapperComponent = doors[d].props.inputMapper]
    /\ doorEvent' = [op |-> "preStart", door |-> d, player |-> "-"]
    /\ IF doors[d].props.inputMapper
       THEN registerAction(DoorAction, DoorHandlers(d))
       ELSE UNCHANGED <<props, actions, deviceCache, playerCount, raw, present, last>>

\* triggerInteraction(player) of door d, the OnGrabStart callback: the
\* context is built (detectDevice for its data), then trigger routes it; the
\* handler the router calls is a closure of the door that registered it and
\* raises when it cannot read the player's name
TriggerInteraction(d, p, n, fails) ==
    /\ doors[d].started
    /\ doorEvent' = [op |-> "triggerInteraction", door |-> d, player |-> p]
    /\ IF ~doors[d].inputMapperComponent
       THEN /\ UNCHANGED <<props, actions, deviceCache, playerCount, raw, present, last>>
            /\ doors' = doors
       ELSE LET d1 == detectDevice(deviceCache, p)
                d2 == detectDevice(d1.cache, p)
                raises == PlayerName(p) = NameThrows
            IN IF DoorAction \notin DOMAIN actions
               THEN /\ deviceCache' = d1.cache
                    /\ last' = [NoOp EXCEPT !.op = "trigger", !.name = DoorAction,
                                    !.player = p, !.reads = d1.reads,
                                    !.diags = d1.diags \o <<Diag("warn", "noHandlers")>>]
                    /\ doors' = doors
                    /\ UNCHANGED <<props, actions, playerCount, raw, present>>
               ELSE LET handler == SelectHandler(actions[DoorAction], d2.ret,
                                                 props.fallbackToDesktop)
                        e == execute(DoorAction, p, d2, handler, raises)
                    IN /\ deviceCache' = d2.cache
                       /\ last' = [e EXCEPT !.reads = d1.reads + d2.reads,
                                            !.diags = d1.diags \o e.diags]
                       /\ doors' = IF handler = Undefined \/ raises THEN doors
                                   ELSE [doors EXCEPT ![handler[1]] =
                                            handleInteraction(doors[handler[1]], n, fails)]
                       /\ UNCHANGED <<props, actions, playerCount, raw, present>>

\* faulty variant: the completion callback never schedules the auto-close timer
AnimationFrame_NoTimer(d) ==
    /\ doors[d].frames > 0
    /\ doorEvent' = [op |-> IF doors[d].frames = 1 THEN "animationDone" ELSE "animationFrame",
                     door |-> d, player |-> "-"]
    /\ doors' =
          IF doors[d].frames > 1
          THEN [doors EXCEPT ![d].frames = doors[d].frames - 1]
          ELSE [doors EXCEPT ![d].frames = 0,
                             ![d].animations = doors[d].animations - 1,
                             ![d].isAnimating = FALSE]
    /\ UNCHANGED <<props, actions, deviceCache, playerCount, raw, present, last>>

\* one frame of the animation of door d runs (the setTimeout of animate); the
\* last one resolves the promise: isAnimating is cleared and, the door open
\* and autoCloseDelay positive, the auto-close timer is scheduled
AnimationFrame(d) ==
    /\ doors[d].frames > 0
    /\ doorEvent' = [op |-> IF doors[d].frames = 1 THEN "animationDone" ELSE "animationFrame",
                     door |-> d, player |-> "-"]
    /\ doors' =
          IF doors[d].frames > 1
          THEN [doors EXCEPT ![d].frames = doors[d].frames - 1]
          ELSE LET schedule == doors[d].isOpen /\ doors[d].props.autoCloseDelay > 0
               IN [doors EXCEPT ![d].frames = 0,
                                ![d].animations = doors[d].animations - 1,
                                ![d].isAnimating = FALSE,
                                ![d].autoCloseTimer = IF schedule THEN 1 ELSE doors[d].autoCloseTimer,
                                ![d].pending = IF schedule THEN doors[d].pending + 1
                                               ELSE doors[d].pending]
    /\ UNCHANGED <<props, actions, deviceCache, playerCount, raw, present, last>>

\* the auto-close timer of door d fires
AutoCloseFires(d, n, fails) ==
    /\ doors[d].pending > 0
    /\ doorEvent' = [op |-> "autoClose", door |-> d, player |-> "-"]
    /\ LET dr == [doors[d] EXCEPT !.pending = doors[d].pending - 1]
       IN doors' = [doors EXCEPT ![d] = IF dr.isOpen /\ ~dr.isAnimating
                                        THEN toggleDoor(dr, n, fails) ELSE dr]
    /\ UNCHANGED <<props, actions, deviceCache, playerCount, raw, present, last>>

\* forceDoorOpen()
forceDoorOpen(d, n, fails) ==
    /\ doorEvent' = [op |-> "forceDoorOpen", door |-> d, player |-> "-"]
    /\ doors' = [doors EXCEPT ![d] = IF ~doors[d].isOpen /\ ~doors[d].isAnimating
                                     THEN toggleDoor(doors[d], n, fails) ELSE doors[d]]
    /\ UNCHANGED <<props, actions, deviceCache, playerCount, raw, present, last>>

\* forceDoorClose()
forceDoorClose(d, n, fails) ==
    /\ doorEvent' = [op |-> "forceDoorClose", door |-> d, player |-> "-"]
    /\ doors' = [doors EXCEPT ![d] = IF doors[d].isOpen /\ ~doors[d].isAnimating
                                     THEN toggleDoor(doors[d], n, fails) ELSE doors[d]]
    /\ UNCHANGED <<props, actions, deviceCache, playerCount, raw, present, last>>

\* ------------------------------------------------------------------------
\* TeamManager (src/src/teamManager.ts)
\* ------------------------------------------------------------------------

TeamNames == {"A", "B"}
\* the players of s, as a set
Members(s) == {s[i] : i \in DOMAIN s}
\* team.filter(p => p.id !== player.id)
Without(s, p) == SelectSeq(s, LAMBDA q : q /= p)
\* the team of the map tm that holds p, "-" when none does
TeamOf(tm, p) ==
    IF \E t \in DOMAIN tm : p \in Members(tm[t])
    THEN CHOOSE t \in DOMAIN tm : p \in Members(tm[t]) ELSE "-"

\* preStart(): this.world is set and the two teams are created empty
TeamPreStart ==
    /\ teams = EmptyMap
    /\ teams' = Put(Put(teams, "A", <<>>), "B", <<>>)
    /\ teamEvent' = [NoTeamEvent EXCEPT !.op = "preStart", !.before = teams]
    /\ UNCHANGED worldPlayers

\* faulty variant: the player is added without being removed from its team
assignToTeam_NoRemove(tm, player, teamName) ==
    IF teamName \in DOMAIN tm
    THEN [tm EXCEPT ![teamName] = Append(tm[teamName], player)] ELSE tm

\* assignToTeam(player, teamName) on the map tm: every team is replaced by
\* itself without the player, then the player is pushed on the team named,
\* if the map has it
assignToTeam(tm, player, teamName) ==
    LET removed == [k \in DOMAIN tm |-> Without(tm[k], player)]
    IN IF teamName \in DOMAIN removed
       THEN [removed EXCEPT ![teamName] = Append(removed[teamName], player)]
       ELSE removed

\* a call of assignToTeam; before preStart this.world is undefined and the
\* call ends in a TypeError at dispatchEvent
AssignToTeam(player, teamName) ==
    /\ teams /= EmptyMap
    /\ teams' = assignToTeam(teams, player, teamName)
    /\ teamEvent' = [op |-> "assignToTeam", player |-> player, team |-> teamName,
                     before |-> teams]
    /\ UNCHANGED worldPlayers

\* faulty variant: the teams are not cleared before the distribution
autoBalancePlayers_Appends(tm, allPlayers) ==
    [t \in DOMAIN tm |->
        tm[t] \o SelectSeq(allPlayers, LAMBDA q :
                    \E i \in DOMAIN allPlayers :
                       allPlayers[i] = q /\ ((i - 1) % 2 = 0 <=> t = "A"))]

\* autoBalancePlayers() on the map tm with world.players = allPlayers: both
\* teams are set to [], then the player at index 0, 2, ... is pushed on A and
\* the player at index 1, 3, ... on B
RECURSIVE Distribute(_, _, _)
Distribute(tm, allPlayers, index) ==
    IF index >= Len(allPlayers) THEN tm
    ELSE LET t == IF index % 2 = 0 THEN "A" ELSE "B"
         IN Distribute([tm EXCEPT ![t] = Append(tm[t], allPlayers[index + 1])],
                       allPlayers, index + 1)
autoBalancePlayers(tm, allPlayers) ==
    Distribute(Put(Put(tm, "A", <<>>), "B", <<>>), allPlayers, 0)

\* a call of autoBalancePlayers; before preStart this.world is undefined and
\* the call ends in a TypeError
AutoBalancePlayers ==
    /\ teams /= EmptyMap
    /\ teams' = autoBalancePlayers(teams, worldPlayers)
    /\ teamEvent' = [NoTeamEvent EXCEPT !.op = "autoBalancePlayers", !.before = teams]
    /\ UNCHANGED worldPlayers

\* environment: a player enters the world
PlayerEnters(p) ==
    /\ p \notin Members(worldPlayers)
    /\ worldPlayers' = Append(worldPlayers, p)
    /\ teamEvent' = [NoTeamEvent EXCEPT !.op = "enters", !.player = p, !.before = teams]
    /\ UNCHANGED teams

\* environment: a player exits the world
PlayerExits(p) ==
    /\ p \in Members(worldPlayers)
    /\ worldPlayers' = Without(worldPlayers, p)
    /\ teamEvent' = [NoTeamEvent EXCEPT !.op = "exits", !.player = p, !.before = teams]
    /\ UNCHANGED teams

\* ------------------------------------------------------------------------
\* useStack (src/unnamed/part_000)
\* ------------------------------------------------------------------------

\* a task pushed as it is, or wrapped by while() in a marked promise
TaskKinds == {"task", "while"}
\* what a task function does when it is called: return a promise, throw, or
\* push another task on the stack and return a promise
Behaviours == {"ok", "throws", "pushes"}
\* the behaviours of the task functions called in one synchronous stretch
Scripts == [1..MaxTasks -> Behaviours]

\* the locals of one call of run() or spread() past the isRunning test
\* (i, listWhile; taskSize, completed), the promises of the tasks it called,
\* whether its own promise is pending (active), fulfilled (returned) or
\* rejected (aborted), and the records of its history: the length of the
\* array at the call (taskSize, which spread() keeps), whether the array was
\* only appended to while the call was active, and the array it ended with
NewFrame(kind, clearAfter, size) ==
    [kind |-> kind, status |-> "active", i |-> 0, clearAfter |-> clearAfter,
     pc |-> "-", listWhile |-> {}, waiting |-> {}, taskSize |-> size,
     completed |-> 0, inv |-> <<>>, appendedOnly |-> TRUE, atEnd |-> <<>>]

\* tasks[idx]() is called with behaviour b by the frame of st
Called(st, idx, b) ==
    LET t == st.tasks[idx]
        pushed == b = "pushes" /\ st.nextId <= MaxTasks
    IN [st EXCEPT
          !.frame.inv = Append(@, [id |-> t.id, kind |-> t.kind,
                                   state |-> IF b = "throws" THEN "rejected"
                                             ELSE "pending"]),
          !.tasks = IF pushed THEN Append(@, [id |-> st.nextId, kind |-> "task"])
                    ELSE @,
          !.nextId = IF pushed THEN @ + 1 ELSE @]

\* faulty variant: run() calls every task without awaiting any
RunLoop_NoAwait(st, beh) ==
    LET RECURSIVE all(_, _, _)
        all(x, idx, b) == IF idx > Len(x.tasks) THEN x
                          ELSE all(Called(x, idx, Head(b)), idx + 1, Tail(b))
        r == all(st, 1, beh)
    IN [r EXCEPT !.running = FALSE,
                 !.frame.status = "returned", !.frame.i = Len(r.tasks),
                 !.frame.atEnd = r.tasks]

\* run() from the test of the while loop to its next await or its end.
\* RunLoop: while (i != tasks.length) { response = task(); a marked promise is
\* put on listWhile, anything else awaited }, and past the loop isRunning =
\* false and clear() if asked. AfterTask: at the last index the promises of
\* listWhile are awaited (those fulfilled call back at once), then i++.
RECURSIVE RunLoop(_, _), AfterTask(_, _)
RunLoop(st, beh) ==
    LET f == st.frame
    IN IF f.i = Len(st.tasks)
       THEN [st EXCEPT !.running = FALSE,
                       !.tasks = IF f.clearAfter THEN <<>> ELSE @,
                       !.frame.status = "returned", !.frame.pc = "-",
                       !.frame.atEnd = st.tasks]
       ELSE IF f.i > Len(st.tasks)
       THEN \* tasks[i] is undefined and calling it throws
            [st EXCEPT !.frame.status = "aborted", !.frame.pc = "-",
                       !.frame.atEnd = st.tasks]
       ELSE LET c == Called(st, f.i + 1, Head(beh))
                k == Len(c.frame.inv)
            IN IF st.tasks[f.i + 1].kind = "task"
               THEN IF Head(beh) = "throws"
                    THEN [c EXCEPT !.frame.status = "aborted", !.frame.pc = "-",
                                   !.frame.atEnd = c.tasks]
                    ELSE [c EXCEPT !.frame.pc = "task"]
               ELSE AfterTask([c EXCEPT !.frame.listWhile = @ \cup {k}], Tail(beh))
AfterTask(st, beh) ==
    LET f == st.frame
    IN IF f.i = Len(st.tasks) - 1
       THEN LET W == {k \in f.listWhile : f.inv[k].state /= "fulfilled"}
            IN IF W = {}
               THEN RunLoop([st EXCEPT !.frame.listWhile = {}, !.frame.pc = "-",
                                       !.frame.i = f.i + 1], beh)
               ELSE [st EXCEPT !.frame.listWhile = {}, !.frame.waiting = W,
                               !.frame.pc = "whiles"]
       ELSE RunLoop([st EXCEPT !.frame.i = f.i + 1, !.frame.pc = "-"], beh)

\* spread(): for (const task of tasks) over the array as it grows, every
\* task called inside its own async function
RECURSIVE SpreadLoop(_, _, _)
SpreadLoop(st, idx, beh) ==
    IF idx > Len(st.tasks) THEN st
    ELSE SpreadLoop(Called(st, idx, Head(beh)), idx + 1, Tail(beh))

\* the state a call works on, and its result written back
Working(f) == [tasks |-> tasks, frame |-> f, nextId |-> nextId, running |-> isRunning]
Started(fs) == LET RECURSIVE sum(_)
                   sum(j) == IF j = 0 THEN 0 ELSE Len(fs[j].inv) + sum(j - 1)
               IN sum(Len(fs))
Written(st, fi, op) ==
    /\ tasks' = st.tasks
    /\ nextId' = st.nextId
    /\ isRunning' = st.running
    /\ frames' = IF fi > Len(frames) THEN Append(frames, st.frame)
                 ELSE [frames EXCEPT ![fi] = st.frame]
    /\ stackEvent' = [op |-> op, frame |-> fi, started |-> Started(frames') - Started(frames)]
\* the array is replaced under the calls in progress
Disturbed == [j \in DOMAIN frames |->
                IF frames[j].status = "active"
                THEN [frames[j] EXCEPT !.appendedOnly = FALSE] ELSE frames[j]]

\* push(task)
Push ==
    /\ nextId <= MaxTasks
    /\ tasks' = Append(tasks, [id |-> nextId, kind |-> "task"])
    /\ nextId' = nextId + 1
    /\ stackEvent' = [NoStackEvent EXCEPT !.op = "push"]
    /\ UNCHANGED <<isRunning, frames>>

\* while(task)
While ==
    /\ nextId <= MaxTasks
    /\ tasks' = Append(tasks, [id |-> nextId, kind |-> "while"])
    /\ nextId' = nextId + 1
    /\ stackEvent' = [NoStackEvent EXCEPT !.op = "while"]
    /\ UNCHANGED <<isRunning, frames>>

\* fill($tasks) with an array of n new tasks
Fill(n) ==
    /\ nextId + n - 1 <= MaxTasks
    /\ tasks' = [j \in 1..n |-> [id |-> nextId + j - 1, kind |-> "task"]]
    /\ nextId' = nextId + n
    /\ frames' = Disturbed
    /\ stackEvent' = [NoStackEvent EXCEPT !.op = "fill"]
    /\ UNCHANGED isRunning

\* clear()
Clear ==
    /\ tasks /= <<>>
    /\ tasks' = <<>>
    /\ frames' = Disturbed
    /\ stackEvent' = [NoStackEvent EXCEPT !.op = "clear"]
    /\ UNCHANGED <<isRunning, nextId>>

\* run(clearAfter), up to its first await
Run(clearAfter, beh) ==
    IF isRunning
    THEN /\ stackEvent' = [NoStackEvent EXCEPT !.op = "runRefused"]
         /\ UNCHANGED <<tasks, isRunning, frames, nextId>>
    ELSE /\ Len(frames) < MaxCalls
         /\ Written(RunLoop([Working(NewFrame("run", clearAfter, Len(tasks))) EXCEPT
                                 !.running = TRUE], beh),
                    Len(frames) + 1, "run")

\* spread(), up to the return of its promise
Spread(beh) ==
    IF isRunning
    THEN /\ stackEvent' = [NoStackEvent EXCEPT !.op = "spreadRefused"]
         /\ UNCHANGED <<tasks, isRunning, frames, nextId>>
    ELSE /\ Len(frames) < MaxCalls
         /\ Written(SpreadLoop([Working(NewFrame("spread", FALSE, Len(tasks))) EXCEPT
                                    !.running = TRUE], 1, beh),
                    Len(frames) + 1, "spread")

\* the promise of the k-th task called by frame fi settles, fulfilled (ok) or
\* rejected, and the code awaiting it goes on: run() to its next await,
\* spread's async function to completed += 1 and tryResolve()
Settle(fi, k, ok, beh) ==
    /\ fi \in DOMAIN frames
    /\ k \in DOMAIN frames[fi].inv
    /\ frames[fi].inv[k].state = "pending"
    /\ LET f == [frames[fi] EXCEPT !.inv[k].state = IF ok THEN "fulfilled" ELSE "rejected"]
           st == Working(f)
       IN Written(
            IF ~ok
            THEN IF f.kind = "run" /\ f.inv[k].kind = "task"
                 THEN [st EXCEPT !.frame.status = "aborted", !.frame.pc = "-",
                                 !.frame.atEnd = tasks]
                 ELSE st
            ELSE IF f.kind = "spread"
            THEN LET done == f.taskSize <= f.completed + 1
                 IN [st EXCEPT !.frame.completed = @ + 1,
                               !.frame.status = IF done THEN "returned" ELSE @,
                               !.running = IF done THEN FALSE ELSE @]
            ELSE IF f.inv[k].kind = "task"
            THEN AfterTask(st, beh)
            ELSE IF f.status = "active" /\ f.pc = "whiles" /\ k \in f.waiting
            THEN IF f.waiting = {k}
                 THEN RunLoop([st EXCEPT !.frame.waiting = {}, !.frame.pc = "-",
                                         !.frame.i = f.i + 1], beh)
                 ELSE [st EXCEPT !.frame.waiting = @ \ {k}]
            ELSE st,
            fi, IF ok THEN "fulfilled" ELSE "rejected")

\* ------------------------------------------------------------------------
\* Specifications
\* ------------------------------------------------------------------------

\* the raw signal of a participant the specification never reads is fixed
InitOver(Ps, Sigs) ==
    /\ Init
    /\ \A p \in AllPlayers :
          IF p \in Ps /\ isRealPlayer(p) THEN raw[p] \in Sigs ELSE raw[p] = "Desktop"

\* The router: two action names, handler sets of every subset of the three
\* categories (written in the order vr, mobile, desktop) taken from NumTags
\* handler families, one participant.
RouterPlayers == {"p1"}
RouterSignals == {"Mobile", "Throws"}
RouterSets ==
    {hs \in HandlerSets :
        /\ \A i \in DOMAIN hs : hs[i][2] /= Undefined
        /\ \A i \in DOMAIN hs : hs[i][1] = "vr" => i = 1
        /\ \A i \in DOMAIN hs : hs[i][1] = "desktop" => i = Len(hs)}
Init0 == InitOver(RouterPlayers, RouterSignals) /\ props.fallbackToDesktop
Next ==
    \/ NoHistory /\ \E n \in ActionNames, hs \in RouterSets : registerAction(n, hs)
    \/ NoHistory /\ \E n \in ActionNames, p \in RouterPlayers, r \in BOOLEAN : trigger(n, p, r)
    \/ NoHistory /\ \E p \in RouterPlayers : DetectDevice(p)
    \/ NoHistory /\ \E p \in RouterPlayers, dt \in DeviceType : setDeviceOverride(p, dt)
    \/ NoHistory /\ clearAllActions
    \/ NoHistory /\ \E p \in RouterPlayers, sig \in RouterSignals : SignalChanges(p, sig)
Spec == Init0 /\ [][Next]_vars

\* Handler selection: one action name registered with every handler set a
\* caller can write (any property order, properties holding undefined).
SelPlayers == {"p1"}
SelNames == {"x"}
SelSets == HandlerSetsOf(1)
InitSelect == InitOver(SelPlayers, RawSignals) /\ ~props.enableDeviceOverride
NextSelect ==
    \/ NoHistory /\ \E n \in SelNames, hs \in SelSets : registerAction(n, hs)
    \/ NoHistory /\ \E n \in SelNames, p \in SelPlayers, r \in BOOLEAN : trigger(n, p, r)
SpecSelect == InitSelect /\ [][NextSelect]_vars

\* The router with the outcome of the previous operation remembered: what a
\* dispatch does right after a failure or a re-registration.
SeqSets == {hs \in RouterSets : Len(hs) /= 2}
InitSeq == Init0 /\ ~props.enableDeviceOverride
NextSeq ==
    \/ \E n \in ActionNames, hs \in SeqSets : registerAction(n, hs) /\ TrackPrior
    \/ \E n \in ActionNames, p \in RouterPlayers, r \in BOOLEAN : trigger(n, p, r) /\ TrackPrior
    \/ \E p \in RouterPlayers : DetectDevice(p) /\ TrackPrior
    \/ \E p \in RouterPlayers, dt \in DeviceType : setDeviceOverride(p, dt) /\ TrackPrior
    \/ clearAllActions /\ TrackPrior
    \/ \E p \in RouterPlayers, sig \in RouterSignals : SignalChanges(p, sig) /\ TrackPrior
SpecSeq == InitSeq /\ [][NextSeq]_vars

\* The session: participants joining, leaving and being classified.
SessionPlayers == {"p1"}
InitSession == InitOver(SessionPlayers, RawSignals) /\ props.fallbackToDesktop
NextSession ==
    \/ \E p \in SessionPlayers : onPlayerJoin(p) /\ TrackFirst
    \/ \E p \in SessionPlayers : onPlayerLeave(p) /\ TrackFirst
    \/ \E p \in SessionPlayers : DetectDevice(p) /\ TrackFirst
    \/ \E p \in SessionPlayers, dt \in DeviceType : setDeviceOverride(p, dt) /\ TrackFirst
    \/ \E p \in SessionPlayers, sig \in RawSignals : SignalChanges(p, sig) /\ TrackFirst
SpecSession == InitSession /\ [][NextSession]_vars

\* Classification: a participant and a caller-held object whose name cannot
\* be read, classified by detectDevice and by trigger, overridden and evicted.
ClassifyPlayers == {"p1", "ghost"}
ClassifyNames == {"x"}
ClassifySignals == {"VR", "Mobile", "Throws"}
ClassifySets ==
    {hs \in HandlerSetsOf(1) :
        hs \in RouterSets /\ (Len(hs) = 3 \/ (Len(hs) = 1 /\ hs[1][1] = "mobile"))}
InitClassify == InitOver(ClassifyPlayers, ClassifySignals) /\ props.fallbackToDesktop
NextClassify ==
    \/ \E n \in ClassifyNames, hs \in ClassifySets : registerAction(n, hs) /\ TrackLife
    \/ \E n \in ClassifyNames, p \in ClassifyPlayers, r \in BOOLEAN : trigger(n, p, r) /\ TrackLife
    \/ \E p \in ClassifyPlayers : DetectDevice(p) /\ TrackLife
    \/ \E p \in ClassifyPlayers, dt \in DeviceType : setDeviceOverride(p, dt) /\ TrackLife
    \/ \E p \in ClassifyPlayers : onPlayerLeave(p) /\ TrackLife
    \/ \E p \in ClassifyPlayers, sig \in ClassifySignals : SignalChanges(p, sig) /\ TrackLife
SpecClassify == InitClassify /\ [][NextClassify]_vars

\* Non-participants: the server player and a player without a name, given to
\* every operation that takes a player.
GuestPlayers == {"srv", "anon"}
GuestNames == {"x"}
GuestSets == {hs \in HandlerSetsOf(1) : hs \in RouterSets /\ Len(hs) = 3}
InitGuest == InitOver(GuestPlayers, RawSignals)
NextGuest ==
    \/ NoHistory /\ \E n \in GuestNames, hs \in GuestSets : registerAction(n, hs)
    \/ NoHistory /\ \E n \in GuestNames, p \in GuestPlayers, r \in BOOLEAN : trigger(n, p, r)
    \/ NoHistory /\ \E p \in GuestPlayers : DetectDevice(p)
    \/ NoHistory /\ \E p \in GuestPlayers, dt \in DeviceType : setDeviceOverride(p, dt)
    \/ NoHistory /\ \E p \in GuestPlayers : onPlayerJoin(p)
    \/ NoHistory /\ \E p \in GuestPlayers : onPlayerLeave(p)
SpecGuest == InitGuest /\ [][NextGuest]_vars

\* The life cycle of two participants: joining, being classified, leaving.
LifePlayers == {"p1", "p2"}
LifeSignals == {"VR", "Mobile"}
InitLife == InitOver(LifePlayers, LifeSignals) /\ props.fallbackToDesktop
NextLife ==
    \/ \E p \in LifePlayers : onPlayerJoin(p) /\ TrackLife
    \/ \E p \in LifePlayers : onPlayerLeave(p) /\ TrackLife
    \/ \E p \in LifePlayers : DetectDevice(p) /\ TrackLife
    \/ \E p \in LifePlayers, dt \in DeviceType : setDeviceOverride(p, dt) /\ TrackLife
    \/ \E p \in LifePlayers, sig \in LifeSignals : SignalChanges(p, sig) /\ TrackLife
SpecLife == InitLife /\ [][NextLife]_vars

\* Retries: a participant whose signal can fail and the server player are
\* classified again and again while signal, overrides and departures come.
RetryPlayers == {"p1", "srv"}
RetrySignals == {"VR", "Mobile", "Throws"}
InitRetry == InitOver(RetryPlayers, RetrySignals) /\ props.fallbackToDesktop
NextRetry ==
    \/ \E p \in RetryPlayers : DetectDevice(p) /\ TrackRetry
    \/ \E p \in RetryPlayers, dt \in DeviceType : setDeviceOverride(p, dt) /\ TrackRetry
    \/ \E p \in RetryPlayers : onPlayerLeave(p) /\ TrackRetry
    \/ \E p \in {"p1"}, sig \in RetrySignals : SignalChanges(p, sig) /\ TrackRetry
SpecRetry == InitRetry /\ [][NextRetry]_vars

\* Well-formed sessions: a participant joins once, is named by operations
\* only while it is in the world, and leaves once.
SessionOf == {"p1", "p2"}
SessionSignals == {"VR", "Throws"}
SessionNames == {"x"}
SessionSets == {hs \in HandlerSetsOf(1) : hs \in RouterSets /\ Len(hs) = 3}
InitWellFormed == InitOver(SessionOf, SessionSignals) /\ props.fallbackToDesktop
NextWellFormed ==
    \/ \E p \in SessionOf :
          p \notin present /\ p \notin left /\ onPlayerJoin(p) /\ TrackLife
    \/ \E p \in SessionOf : p \in present /\ onPlayerLeave(p) /\ TrackLife
    \/ \E p \in SessionOf : p \in present /\ DetectDevice(p) /\ TrackLife
    \/ \E p \in SessionOf, dt \in DeviceType :
          p \in present /\ setDeviceOverride(p, dt) /\ TrackLife
    \/ \E n \in SessionNames, hs \in SessionSets : registerAction(n, hs) /\ TrackLife
    \/ \E n \in SessionNames, p \in SessionOf, r \in BOOLEAN :
          p \in present /\ trigger(n, p, r) /\ TrackLife
    \/ GetPlayerStats /\ TrackLife
SpecWellFormed == InitWellFormed /\ [][NextWellFormed]_vars

\* Statistics: two participants join, are classified, overridden and leave
\* in any order, and a caller asks for the statistics.
StatsPlayers == {"p1", "p2"}
StatsSignals == {"VR", "Desktop"}
InitStats == InitOver(StatsPlayers, StatsSignals) /\ props.fallbackToDesktop
NextStats ==
    \/ NoHistory /\ \E p \in StatsPlayers : onPlayerJoin(p)
    \/ NoHistory /\ \E p \in StatsPlayers : onPlayerLeave(p)
    \/ NoHistory /\ \E p \in StatsPlayers : DetectDevice(p)
    \/ NoHistory /\ \E p \in StatsPlayers, dt \in DeviceType : setDeviceOverride(p, dt)
    \/ NoHistory /\ GetPlayerStats
SpecStats == InitStats /\ [][NextStats]_vars

\* Doors: two doors connected to one InputMapper, started in either order,
\* a participant interacting with their triggers, scripts forcing them, their
\* animations and auto-close timers running.
DoorPlayers == {"p1"}
DoorSignals == {"VR", "Desktop"}
DoorPropsUsed == {pr \in DoorProps : pr.inputMapper}
InitDoors ==
    /\ InitMapper
    /\ \A p \in AllPlayers :
          IF p \in DoorPlayers THEN raw[p] \in DoorSignals ELSE raw[p] = "Desktop"
    /\ props = [debugMode |-> FALSE, enableDeviceOverride |-> FALSE,
                fallbackToDesktop |-> TRUE]
    /\ doors \in [Doors -> {NewDoor(pr) : pr \in DoorPropsUsed}]
    /\ doorEvent = NoDoorEvent
    /\ InitOthers
NextDoors ==
    \/ HistoryIdle /\ \E d \in Doors : PreStart(d)
    \/ HistoryIdle /\ \E d \in Doors, p \in DoorPlayers, n \in Frames, f \in BOOLEAN :
                         TriggerInteraction(d, p, n, f)
    \/ HistoryIdle /\ \E d \in Doors : AnimationFrame(d)
    \/ HistoryIdle /\ \E d \in Doors, n \in Frames, f \in BOOLEAN : AutoCloseFires(d, n, f)
    \/ HistoryIdle /\ \E d \in Doors, n \in Frames, f \in BOOLEAN : forceDoorOpen(d, n, f)
    \/ HistoryIdle /\ \E d \in Doors, n \in Frames, f \in BOOLEAN : forceDoorClose(d, n, f)
SpecDoors == InitDoors /\ [][NextDoors]_vars

\* DoorLive: one door of the world in use, its animation frames and its
\* auto-close timer scheduled by the platform's timer queue (async.setTimeout):
\* a frame or a timer that is due is eventually run, an interaction or a forced
\* toggle may or may not come.
LiveDoors == {1}
InitDoorLive ==
    /\ InitDoors
    /\ \A d \in Doors \ LiveDoors : doors[d] = NewDoor(DefaultDoorProps)
NextDoorLive ==
    \/ HistoryIdle /\ \E d \in LiveDoors : PreStart(d)
    \/ HistoryIdle /\ \E d \in LiveDoors, p \in DoorPlayers, n \in Frames, f \in BOOLEAN :
                         TriggerInteraction(d, p, n, f)
    \/ HistoryIdle /\ \E d \in LiveDoors : AnimationFrame(d)
    \/ HistoryIdle /\ \E d \in LiveDoors, n \in Frames, f \in BOOLEAN : AutoCloseFires(d, n, f)
    \/ HistoryIdle /\ \E d \in LiveDoors, n \in Frames, f \in BOOLEAN : forceDoorOpen(d, n, f)
    \/ HistoryIdle /\ \E d \in LiveDoors, n \in Frames, f \in BOOLEAN : forceDoorClose(d, n, f)
TimersRun ==
    \A d \in LiveDoors :
       /\ WF_vars(HistoryIdle /\ AnimationFrame(d))
       /\ WF_vars(HistoryIdle /\ \E n \in Frames, f \in BOOLEAN : AutoCloseFires(d, n, f))
SpecDoorLive == InitDoorLive /\ [][NextDoorLive]_vars /\ TimersRun

\* Teams: three players entering and leaving the world in any order, assigned
\* to teams one by one and balanced.
TeamPlayers == {"p1", "p2", "srv"}
OnlyTeams == MapperIdle /\ HistoryOnly /\ DoorsOnly /\ StackIdle
InitTeamsSpec ==
    /\ Init
    /\ props = [debugMode |-> FALSE, enableDeviceOverride |-> FALSE,
                fallbackToDesktop |-> TRUE]
    /\ raw = [p \in AllPlayers |-> "Desktop"]
NextTeams ==
    \/ OnlyTeams /\ TeamPreStart
    \/ OnlyTeams /\ \E p \in TeamPlayers, t \in TeamNames : AssignToTeam(p, t)
    \/ OnlyTeams /\ AutoBalancePlayers
    \/ OnlyTeams /\ \E p \in TeamPlayers : PlayerEnters(p)
    \/ OnlyTeams /\ \E p \in TeamPlayers : PlayerExits(p)
SpecTeams == InitTeamsSpec /\ [][NextTeams]_vars

\* Stack: up to MaxTasks task functions pushed, wrapped or filled in, up to
\* MaxCalls calls of run() and spread() getting past the flag, any number
\* refused, every task free to fulfil, reject, throw or push another task.
OnlyStack == MapperIdle /\ HistoryOnly /\ DoorsOnly /\ TeamsIdle
InitStackSpec ==
    /\ Init
    /\ props = [debugMode |-> FALSE, enableDeviceOverride |-> FALSE,
                fallbackToDesktop |-> TRUE]
    /\ raw = [p \in AllPlayers |-> "Desktop"]
\* the scripts that differ in the first n calls, and the number of task
\* functions run() can call from index i on before it awaits one: none at the
\* end of the array, one if the next is a pushed task, else any number
ScriptsOf(n) == {beh \in Scripts : \A j \in DOMAIN beh : j > n => beh[j] = "ok"}
Stretch(i) ==
    IF i >= Len(tasks) THEN 0 ELSE IF tasks[i + 1].kind = "task" THEN 1 ELSE MaxTasks
RunScripts == IF isRunning THEN ScriptsOf(0) ELSE ScriptsOf(Stretch(0))
SpreadScripts == IF isRunning \/ tasks = <<>> THEN ScriptsOf(0) ELSE Scripts
SettleScripts(fi, ok) ==
    IF ok /\ fi \in DOMAIN frames /\ frames[fi].kind = "run" /\ frames[fi].status = "active"
    THEN ScriptsOf(Stretch(frames[fi].i + 1)) ELSE ScriptsOf(0)
NextStack ==
    \/ OnlyStack /\ Push
    \/ OnlyStack /\ While
    \/ OnlyStack /\ \E n \in 1..MaxTasks : Fill(n)
    \/ OnlyStack /\ Clear
    \/ OnlyStack /\ \E c \in BOOLEAN, beh \in RunScripts : Run(c, beh)
    \/ OnlyStack /\ \E beh \in SpreadScripts : Spread(beh)
    \/ OnlyStack /\ \E fi \in 1..MaxCalls, k \in 1..MaxTasks, ok \in BOOLEAN :
                       \E beh \in SettleScripts(fi, ok) : Settle(fi, k, ok, beh)
SpecStack == InitStackSpec /\ [][NextStack]_vars

\* Spread: the stack used with spread() alone, tasks pushed and wrapped before
\* and between the calls, and every promise a task returned eventually
\* settled.
NextSpread ==
    \/ OnlyStack /\ Push
    \/ OnlyStack /\ While
    \/ OnlyStack /\ \E beh \in SpreadScripts : Spread(beh)
    \/ OnlyStack /\ \E fi \in 1..MaxCalls, k \in 1..MaxTasks, ok \in BOOLEAN :
                       \E beh \in SettleScripts(fi, ok) : Settle(fi, k, ok, beh)
TasksSettle ==
    \A fi \in 1..MaxCalls, k \in 1..MaxTasks :
       WF_vars(OnlyStack /\ \E ok \in BOOLEAN, beh \in ScriptsOf(0) : Settle(fi, k, ok, beh))
SpecSpread == InitStackSpec /\ [][NextSpread]_vars /\ TasksSettle

\* ------------------------------------------------------------------------
\* Properties
\* ------------------------------------------------------------------------

\* the handler set has a handler (not undefined) under key k
HasHandler(hs, k) == \E i \in DOMAIN hs : hs[i][1] = k /\ hs[i][2] /= Undefined
\* h is the value the handler set holds under key k
Entry(hs, k, h) == \E i \in DOMAIN hs : hs[i] = <<k, h>>
\* the last operation was a trigger of an action that is registered
Dispatched == last.op = "trigger" /\ last.name \in DOMAIN actions
\* the diagnostics of the last operation that report `what`
Reports(what) == {i \in DOMAIN last.diags : last.diags[i][2] = what}

\* C1: for an action registered with handlers for all three categories,
\* trigger for a participant classified as c invokes the handler registered
\* under c once and no other handler, whatever fallbackToDesktop is.
C1_ExactMatch ==
    (Dispatched /\ \A k \in DeviceType : HasHandler(actions[last.name], k))
    => /\ last.known
       /\ Len(last.invoked) = 1
       /\ Entry(actions[last.name], last.device, last.invoked[1])
       /\ last.player \in DOMAIN deviceCache => deviceCache[last.player] = last.device

\* a VR participant, desktop written first, fallbackToDesktop set: the vr handler
C1_Witness ==
    /\ Dispatched /\ props.fallbackToDesktop
    /\ \A k \in DeviceType : HasHandler(actions[last.name], k)
    /\ actions[last.name][1][1] = "desktop"
    /\ last.player \in DOMAIN deviceCache /\ deviceCache[last.player] = "vr"
    /\ last.invoked = <<Handler(1, "vr")>>

\* C2: no handler for the participant's category, a desktop handler and
\* fallbackToDesktop set: trigger invokes the desktop handler once and no other.
C2_DesktopFallback ==
    (/\ Dispatched /\ props.fallbackToDesktop
     /\ ~HasHandler(actions[last.name], last.device)
     /\ HasHandler(actions[last.name], "desktop"))
    => /\ Len(last.invoked) = 1
       /\ Entry(actions[last.name], "desktop", last.invoked[1])

\* a VR participant and the set {mobile, desktop}, mobile written first
C2_Witness ==
    /\ Dispatched /\ props.fallbackToDesktop
    /\ last.device = "vr"
    /\ actions[last.name] = << <<"mobile", Handler(1, "mobile")>>,
                               <<"desktop", Handler(1, "desktop")>> >>
    /\ last.invoked = <<Handler(1, "desktop")>>

\* C3: a handler set that holds at least one handler is never dropped: trigger
\* invokes a handler for every category and both values of fallbackToDesktop.
C3_NeverDropped ==
    (Dispatched /\ HandlersIn(actions[last.name]) /= {})
    => Len(last.invoked) = 1

\* C5: fallbackToDesktop unset and a handler set without any handler: trigger
\* returns normally, invokes nothing and emits exactly one warning that no
\* compatible handler was found.
C5_NoHandlerSafety ==
    (Dispatched /\ ~props.fallbackToDesktop /\ HandlersIn(actions[last.name]) = {})
    => /\ last.invoked = <<>>
       /\ ~last.threw
       /\ Cardinality(Reports("noCompatibleHandler")) = 1
       /\ \A i \in Reports("noCompatibleHandler") : last.diags[i][1] = "warn"

\* the empty handler set, triggered without fallbackToDesktop
C5_Witness ==
    /\ Dispatched /\ ~props.fallbackToDesktop
    /\ actions[last.name] = <<>>
    /\ last.diags = <<Diag("warn", "noCompatibleHandler")>>

\* C4: trigger of a name without registration is a silent no-op: no handler
\* is invoked, nothing is raised, one warning that no handlers were found is
\* emitted, the participant is not classified, and registry, cache and live
\* count stay as they are; a later registerAction invokes nothing either.
C4_UnregisteredNoOp ==
    /\ []((last.op = "trigger" /\ last.name \notin DOMAIN actions)
          => /\ last.invoked = <<>>
             /\ ~last.threw
             /\ last.diags = <<Diag("warn", "noHandlers")>>
             /\ last.reads = 0 /\ last.device = "-")
    /\ [][(last'.op = "trigger" /\ last'.name \notin DOMAIN actions)
          => UNCHANGED <<actions, deviceCache, playerCount>>]_vars
    /\ [][last'.op = "registerAction" => last'.invoked = <<>>]_vars

\* an unregistered name triggered for a participant never classified, while
\* another name is registered
C4_Witness ==
    /\ last.op = "trigger" /\ last.name \notin DOMAIN actions
    /\ DOMAIN actions /= {}
    /\ last.player \notin DOMAIN deviceCache
    /\ raw[last.player] = "Mobile"

\* C6: when the selected handler raises, trigger returns normally, and the
\* registry and the cache are what a normal return of the handler leaves: the
\* registry as it was, the cache with the classification made for the dispatch.
C6_FailureContained ==
    [][(last'.op = "trigger" /\ last'.raised)
       => /\ ~last'.threw
          /\ Diag("error", "handlerError") \in {last'.diags[i] : i \in DOMAIN last'.diags}
          /\ actions' = actions
          /\ playerCount' = playerCount
          /\ deviceCache' = detectDevice(deviceCache, last'.player).cache]_vars

\* a handler raised in the dispatch that classified its participant
C6_Witness ==
    /\ last.op = "trigger" /\ last.raised /\ ~last.threw
    /\ last.reads = 1
    /\ last.player \in DOMAIN deviceCache
    /\ last.name \in DOMAIN actions

\* the ways an operation ends that the error taxonomy names
Faults == {"HandlerFailure", "UnregisteredAction", "NoCompatibleHandler",
           "ClassificationFailure", "OverrideRejected"}
\* the selection policy: the handler of the category, else (with the flag)
\* the desktop handler, else any handler of the set, else none
SelectedByPolicy(hs, c, fallback, invoked) ==
    IF HasHandler(hs, c) THEN Len(invoked) = 1 /\ Entry(hs, c, invoked[1])
    ELSE IF fallback /\ HasHandler(hs, "desktop")
    THEN Len(invoked) = 1 /\ Entry(hs, "desktop", invoked[1])
    ELSE IF HandlersIn(hs) /= {}
    THEN Len(invoked) = 1 /\ invoked[1] \in HandlersIn(hs)
    ELSE invoked = <<>>

\* C7: a trigger of a registered action that follows an operation that failed
\* (a handler that raised, a classification failure, an unregistered trigger,
\* a rejected override, a set without handler) dispatches as any other: it
\* classifies the participant from the cache, or as desktop when there is no
\* entry, selects by the policy, invokes the handler and returns normally.
C7_UsableAfterFailure ==
    (Dispatched /\ \E f \in prior : f[1] \in Faults)
    => /\ last.known /\ ~last.threw
       /\ SelectedByPolicy(actions[last.name], last.device,
                           props.fallbackToDesktop, last.invoked)
       /\ last.device = IF last.player \in DOMAIN deviceCache
                        THEN deviceCache[last.player] ELSE "desktop"

\* trigger of y invokes a handler right after a handler of x raised
C7_Witness ==
    /\ Dispatched /\ last.name = "y"
    /\ <<"HandlerFailure", "x">> \in prior
    /\ Len(last.invoked) = 1 /\ ~last.raised
    /\ Entry(actions["y"], last.device, last.invoked[1])

\* C8: a second registerAction of a name replaces the first handler set: the
\* registry holds exactly the set given, the call emits the overwrite warning
\* and raises nothing, and every trigger invokes only handlers of the set
\* the registry holds for the name.
C8_LastWriteWins ==
    /\ [](Dispatched
          => \A i \in DOMAIN last.invoked :
                last.invoked[i] \in HandlersIn(actions[last.name]))
    /\ [][last'.op = "registerAction"
          => /\ actions' = Put(actions, last'.name, last'.arg)
             /\ ~last'.threw
             /\ last'.name \in DOMAIN actions
                => Diag("warn", "overwrite") \in
                      {last'.diags[i] : i \in DOMAIN last'.diags}]_vars

\* a trigger right after a registration that discarded handlers of the first
\* set invokes a handler of the second
C8_Witness ==
    /\ Dispatched
    /\ <<"Replaced", last.name>> \in prior
    /\ Len(last.invoked) = 1
    /\ last.invoked[1] \in HandlersIn(actions[last.name])
    /\ last.invoked[1][1] = 2

\* C9: detectDevice for a participant that has a cache entry returns the entry
\* without reading the raw signal and leaves the cache as it is, whatever the
\* raw signal now is.
C9_StickyEntry ==
    [][(last'.op = "detectDevice" /\ last'.player \in DOMAIN deviceCache)
       => /\ last'.ret = deviceCache[last'.player]
          /\ last'.reads = 0
          /\ deviceCache' = deviceCache]_vars

\* the entry was read from the raw signal, the signal has since changed to
\* another category, and detectDevice still returned the entry
C9_Witness ==
    /\ last.op = "detectDevice" /\ last.known /\ last.reads = 0
    /\ ~props.enableDeviceOverride
    /\ raw[last.player] /= "Throws"
    /\ SimpleType(raw[last.player]) /= last.ret
    /\ deviceCache[last.player] = last.ret

\* a caller's detectDevice call for a real participant
Classified == last.op = "detectDevice" /\ isRealPlayer(last.player)

\* C10 as stated: for a participant that has not left, every detectDevice
\* call from the first one whose read of the raw signal succeeded returns
\* what that call returned.
C10_Idempotent ==
    (Classified /\ first[last.player] /= "none")
    => last.ret = first[last.player]

\* C10 as amended: the same, for a participant no setDeviceOverride has
\* taken effect on since it last left.
C10_IdempotentUnlessOverridden ==
    (Classified /\ first[last.player] /= "none" /\ last.player \notin overridden)
    => last.ret = first[last.player]

\* with overrides enabled but none made for the participant, a call after the
\* raw signal became unreadable returns the first category
C10_Witness ==
    /\ last.op = "detectDevice" /\ isRealPlayer(last.player)
    /\ props.enableDeviceOverride /\ last.player \notin overridden
    /\ first[last.player] = "vr" /\ last.ret = "vr"
    /\ raw[last.player] = "Throws"

\* a caller's detectDevice call for a participant whose entry the leave hook
\* removed, no operation having classified or overridden it since
AfterEviction == last'.op = "detectDevice" /\ evicted[last'.player][2] = "pending"

\* C11 as stated: after the leave hook removed P's entry the next
\* detectDevice(P) reads the raw signal again and returns and caches the
\* category of the signal's current value.
C11_EvictedRereads ==
    [][AfterEviction
       => /\ last'.reads = 1
          /\ last'.ret = SimpleType(raw[last'.player])
          /\ deviceCache' = Put(deviceCache, last'.player, last'.ret)]_vars

\* C11 as amended: the call is a cache miss; for a real participant it reads
\* the raw signal once and, the read succeeding, returns and caches the
\* category of the current value; when the read fails, or P is no real
\* participant (no read is made), it returns desktop and caches nothing.
C11_EvictedMiss ==
    [][AfterEviction
       => LET p == last'.player
          IN /\ ~last'.known
             /\ IF isRealPlayer(p) /\ raw[p] /= "Throws"
                THEN /\ last'.reads = 1
                     /\ last'.ret = SimpleType(raw[p])
                     /\ deviceCache' = Put(deviceCache, p, last'.ret)
                ELSE /\ last'.reads = (IF isRealPlayer(p) THEN 1 ELSE 0)
                     /\ last'.ret = "desktop"
                     /\ deviceCache' = deviceCache
                     /\ p \notin DOMAIN deviceCache']_vars

\* the entry vr was detected, evicted by the leave hook, the signal became
\* Mobile and the next detectDevice returned and cached mobile
C11_Witness ==
    /\ last.op = "detectDevice" /\ last.player = "p1"
    /\ ~props.enableDeviceOverride
    /\ evicted["p1"] = <<"vr", "next">>
    /\ last.reads = 1 /\ last.ret = "mobile"
    /\ deviceCache["p1"] = "mobile"
    /\ "p1" \in left

\* C12: on a cache miss for a real participant whose raw signal can be read,
\* detectDevice reads the signal once and returns and stores under the
\* participant's id vr for VR, mobile for Mobile and desktop for every other
\* value; whatever detectDevice returns is one of vr, mobile, desktop.
C12_MissClassifies ==
    /\ [][(/\ last'.op = "detectDevice"
           /\ last'.player \notin DOMAIN deviceCache
           /\ isRealPlayer(last'.player)
           /\ raw[last'.player] /= "Throws")
          => LET sig == raw[last'.player]
                 c == CASE sig = "VR" -> "vr"
                        [] sig = "Mobile" -> "mobile"
                        [] OTHER -> "desktop"
             IN /\ last'.reads = 1
                /\ last'.ret = c
                /\ deviceCache' = Put(deviceCache, last'.player, c)]_vars
    /\ [](last.device /= "-" => last.device \in DeviceType)
    /\ [](last.op = "detectDevice" => last.ret \in DeviceType)

\* a miss with the raw signal Mobile: mobile returned and stored
C12_Witness ==
    /\ last.op = "detectDevice" /\ ~last.known /\ last.reads = 1
    /\ isRealPlayer(last.player)
    /\ raw[last.player] = "Mobile"
    /\ last.ret = "mobile"
    /\ deviceCache[last.player] = "mobile"

\* the read of the name or of the raw signal that a classification of p
\* makes in this state fails
ReadFails(p) ==
    /\ p \notin DOMAIN deviceCache
    /\ \/ PlayerName(p) = NameThrows
       \/ isRealPlayer(p) /\ raw[p] = "Throws"

\* C13: when the read of the participant's raw signal or name fails,
\* detectDevice returns desktop and raises nothing; inside trigger the
\* dispatch goes on with the category desktop. No detectDevice and no
\* trigger raises, and each classification yields a category.
C13_ClassificationTotal ==
    /\ [][(last'.op = "detectDevice" /\ ReadFails(last'.player))
          => last'.ret = "desktop" /\ ~last'.threw]_vars
    /\ [][(last'.op = "trigger" /\ last'.known /\ ReadFails(last'.player))
          => /\ last'.device = "desktop" /\ ~last'.threw
             /\ SelectedByPolicy(actions[last'.name], "desktop",
                                 props.fallbackToDesktop, last'.invoked)]_vars
    /\ [](last.op \in {"detectDevice", "trigger"} => ~last.threw)
    /\ []((last.op = "detectDevice" \/ (last.op = "trigger" /\ last.known))
          => last.device \in DeviceType)

\* the raw signal could not be read in a trigger: the desktop handler ran
C13_Witness ==
    /\ last.op = "trigger" /\ last.known /\ last.player = "p1"
    /\ last.reads = 1 /\ raw["p1"] = "Throws"
    /\ "p1" \notin DOMAIN deviceCache
    /\ last.device = "desktop"
    /\ last.invoked = <<Handler(1, "desktop")>>
    /\ ~last.threw

\* the participant's name is empty or the sentinel 'Server'
NonParticipant(p) == PlayerName(p) \in {"", "Server"}

\* C14: after any sequence of operations, detectDevice on a participant whose
\* name is empty or 'Server' returns desktop and creates or changes no cache
\* entry: the cache size getPlayerStats then shows is what it was.
C14_NonParticipantDesktop ==
    [][(last'.op = "detectDevice" /\ NonParticipant(last'.player))
       => /\ last'.ret = "desktop"
          /\ deviceCache' = deviceCache
          /\ getPlayerStats' = getPlayerStats]_vars

\* C15: a participant whose name is empty or 'Server' is never classified or
\* counted: a join notification, detectDevice, trigger or setDeviceOverride
\* for it changes no field of getPlayerStats and puts no entry for it in
\* the cache.
C15_NeverCounted ==
    [][(/\ last'.op \in {"onPlayerJoin", "detectDevice", "trigger", "setDeviceOverride"}
        /\ NonParticipant(last'.player))
       => /\ getPlayerStats' = getPlayerStats
          /\ last'.player \notin DOMAIN deviceCache']_vars

\* C16: with enableDeviceOverride unset, setDeviceOverride(P, c) changes
\* neither cache, registry nor live count, emits a warning, and a
\* detectDevice(P) made after it yields what it would have yielded without it.
C16_OverrideGated ==
    [][(last'.op = "setDeviceOverride" /\ ~props.enableDeviceOverride)
       => /\ UNCHANGED <<actions, deviceCache, playerCount, props>>
          /\ last'.diags = <<Diag("warn", "overrideDisabled")>>
          /\ ~last'.threw
          /\ detectDevice(deviceCache', last'.player)
                = detectDevice(deviceCache, last'.player)]_vars

\* an override to vr rejected for a participant cached as mobile
C16_Witness ==
    /\ last.op = "setDeviceOverride" /\ ~props.enableDeviceOverride
    /\ last.arg = "vr"
    /\ last.player \in DOMAIN deviceCache
    /\ deviceCache[last.player] = "mobile"
    /\ detectDevice(deviceCache, last.player).ret = "mobile"

\* C17: with enableDeviceOverride set, setDeviceOverride(P, c) writes c under
\* P's id in place of any entry; until the leave hook removes the entry or
\* another override replaces it, every detectDevice(P) returns c and every
\* trigger for P dispatches as category c.
C17_OverrideSticks ==
    /\ [][(last'.op = "setDeviceOverride" /\ props.enableDeviceOverride)
          => deviceCache' = Put(deviceCache, last'.player, last'.arg)]_vars
    /\ []((last.op = "detectDevice" /\ forced[last.player] /= "none")
          => last.ret = forced[last.player] /\ last.reads = 0)
    /\ []((Dispatched /\ forced[last.player] /= "none")
          => /\ last.device = forced[last.player]
             /\ last.reads = 0
             /\ SelectedByPolicy(actions[last.name], forced[last.player],
                                 props.fallbackToDesktop, last.invoked))

\* a participant on a VR device detected as vr, overridden to mobile: the
\* mobile handler is what a trigger invokes
C17_Witness ==
    /\ Dispatched /\ last.player = "p1"
    /\ raw["p1"] = "VR"
    /\ forced["p1"] = "mobile"
    /\ deviceCache["p1"] = "mobile"
    /\ last.invoked = <<Handler(1, "mobile")>>
    /\ HasHandler(actions[last.name], "vr")

\* C18: in every reachable state, under any interleaving of join, leave,
\* detectDevice and setDeviceOverride, the cache holds at most one entry per
\* participant id and no entry for a participant that has left and has not
\* joined again.
C18_NoEntryAfterLeave ==
    /\ DOMAIN deviceCache \subseteq AllPlayers
    /\ \A p \in DOMAIN deviceCache : deviceCache[p] \in DeviceType
    /\ \A p \in left : p \notin DOMAIN deviceCache

\* the participants that get a cache entry in the step
NewEntries == (DOMAIN deviceCache') \ (DOMAIN deviceCache)

\* C19 as stated: a join notification adds one to the live count and does not
\* classify: it leaves the cache as it is and does not read the raw signal;
\* an entry is created only by a trigger or a detectDevice call.
C19_JoinLazy ==
    /\ [][last'.op = "onPlayerJoin"
          => /\ playerCount' = playerCount + 1
             /\ deviceCache' = deviceCache
             /\ last'.reads = 0]_vars
    /\ [][NewEntries /= {} => last'.op \in {"trigger", "detectDevice"}]_vars

\* C19 as amended: a join notification adds one to the live count and
\* classifies the participant: without an entry, a real participant whose
\* signal can be read is read once and gets its entry; otherwise the cache
\* stays as it is. An entry is created only by a join notification, a
\* trigger, a detectDevice call or an override.
C19_JoinClassifies ==
    /\ [][last'.op = "onPlayerJoin"
          => LET p == last'.player
             IN /\ playerCount' = playerCount + 1
                /\ IF p \notin DOMAIN deviceCache /\ isRealPlayer(p) /\ raw[p] /= "Throws"
                   THEN /\ last'.reads = 1
                        /\ deviceCache' = Put(deviceCache, p, SimpleType(raw[p]))
                   ELSE deviceCache' = deviceCache]_vars
    /\ [][NewEntries /= {}
          => /\ NewEntries = {last'.player}
             /\ last'.op \in {"onPlayerJoin", "trigger", "detectDevice",
                               "setDeviceOverride"}]_vars

\* the second participant joins on a VR device: counted and cached as vr
C19_Witness ==
    /\ last.op = "onPlayerJoin" /\ ~last.known /\ last.reads = 1
    /\ playerCount = 2
    /\ raw[last.player] = "VR"
    /\ last.player \in DOMAIN deviceCache
    /\ deviceCache[last.player] = "vr"
    /\ ~props.enableDeviceOverride

\* C20: a leave notification takes one from the live count, but not below
\* zero, and removes the cache entry of that participant and of no other; the
\* live count is never negative.
C20_LeaveEvictsOne ==
    /\ [][last'.op = "onPlayerLeave"
          => /\ playerCount' = (IF playerCount = 0 THEN 0 ELSE playerCount - 1)
             /\ DOMAIN deviceCache' = (DOMAIN deviceCache) \ {last'.player}
             /\ \A q \in DOMAIN deviceCache' : deviceCache'[q] = deviceCache[q]]_vars
    /\ [](playerCount >= 0)

\* the last participant counted leaves: its entry is gone, the entry of the
\* other participant is still there
C20_Witness ==
    /\ last.op = "onPlayerLeave" /\ last.known
    /\ playerCount = 0
    /\ last.player \notin DOMAIN deviceCache
    /\ \E q \in present : q /= last.player /\ q \in DOMAIN deviceCache

\* C21: getPlayerStats returns the live count as total and, as vr, mobile and
\* desktop, the number of cache entries of the category, the three adding up
\* to the size of the cache; it changes no state of the router.
C21_StatsSnapshot ==
    /\ [](last.op = "getPlayerStats"
          => /\ last.ret.total = playerCount
             /\ \A c \in DeviceType :
                   last.ret[c] = Cardinality({k \in DOMAIN deviceCache : deviceCache[k] = c})
             /\ last.ret.vr + last.ret.mobile + last.ret.desktop
                   = Cardinality(DOMAIN deviceCache))
    /\ [][last'.op = "getPlayerStats"
          => UNCHANGED <<props, actions, deviceCache, playerCount>>]_vars

\* two participants counted, one of them classified: total exceeds the sum
C21_Witness ==
    /\ last.op = "getPlayerStats"
    /\ last.ret = [total |-> 2, vr |-> 1, mobile |-> 0, desktop |-> 0]
    /\ Cardinality(DOMAIN deviceCache) = 1

\* C22: clearAllActions removes every registration in one step: afterwards
\* getRegisteredActions is empty, and a trigger of a name is an unregistered
\* no-op until the name is registered again; no step removes only some of the
\* registrations, and the clear leaves cache and live count as they are.
C22_ClearAtomic ==
    /\ [][last'.op = "clearAllActions"
          => /\ getRegisteredActions' = {}
             /\ UNCHANGED <<deviceCache, playerCount>>]_vars
    /\ [][(DOMAIN actions) \ (DOMAIN actions') /= {}
          => actions' = EmptyMap /\ last'.op = "clearAllActions"]_vars
    /\ [][(DOMAIN actions') \ (DOMAIN actions) /= {}
          => /\ last'.op = "registerAction"
             /\ (DOMAIN actions') \ (DOMAIN actions) = {last'.name}]_vars
    /\ []((last.op = "trigger" /\ last.name \notin getRegisteredActions)
          => last.invoked = <<>> /\ ~last.known)

\* right after a clear the trigger of a name finds no registration, while the
\* participant's cache entry is still there
C22_Witness ==
    /\ <<"Cleared", "-">> \in prior
    /\ last.op = "trigger" /\ ~last.known /\ last.invoked = <<>>
    /\ getRegisteredActions = {}
    /\ last.player \in DOMAIN deviceCache

\* the diagnostics of the last operation
Emitted == {last.diags[i] : i \in DOMAIN last.diags}

\* C23: warnings and errors are emitted whatever debugMode is: the error of a
\* failed read of the raw signal, the skip of a non-participant, and the
\* unregistered-action, no-compatible-handler, re-registration,
\* handler-failure and override-rejected diagnostics; only info-level output
\* depends on the flag.
C23_AlwaysReported ==
    /\ (last.reads = 1 /\ raw[last.player] = "Throws")
       => Diag("error", "detectError") \in Emitted
    /\ (last.op = "detectDevice" /\ ~last.known /\ ~isRealPlayer(last.player))
       => Diag("warn", "skipServerPlayer") \in Emitted
    /\ (last.op = "trigger" /\ ~last.known)
       => Diag("warn", "noHandlers") \in Emitted
    /\ (last.op = "trigger" /\ last.known /\ last.invoked = <<>>)
       => Diag("warn", "noCompatibleHandler") \in Emitted
    /\ (last.op = "trigger" /\ last.raised)
       => Diag("error", "handlerError") \in Emitted
    /\ (last.op = "registerAction" /\ last.known)
       => Diag("warn", "overwrite") \in Emitted
    /\ (last.op = "setDeviceOverride" /\ ~props.enableDeviceOverride)
       => Diag("warn", "overrideDisabled") \in Emitted
    /\ ~props.debugMode => \A d \in Emitted : d[1] /= "log"

\* two handler sets define the same handlers for the same categories
SameHandlers(a, b) == \A k \in DeviceType : Get(a, k) = Get(b, k)
\* what the last trigger invoked, undefined when it invoked nothing
Chosen == IF last.invoked = <<>> THEN Undefined ELSE last.invoked[1]
\* the selection as a function of the category, the flag, the handlers under
\* the three keys and the value of the first property
Policy(hs, c, fallback) ==
    IF HasHandler(hs, c) THEN Get(hs, c)
    ELSE IF fallback /\ HasHandler(hs, "desktop") THEN Get(hs, "desktop")
    ELSE FirstValue(hs)

\* C24 as stated: the selection depends only on the category, the flag and
\* the categories that have a handler: a set with the same handlers in
\* another property order selects what the registered set selected.
C24_OrderIndependent ==
    Dispatched
    => \A hs2 \in SelSets :
          SameHandlers(hs2, actions[last.name])
          => SelectHandler(hs2, last.device, props.fallbackToDesktop) = Chosen

\* C24 as amended: the selection depends on these and on the value of the
\* first property of the set, which is what is taken when neither the
\* category nor (with the flag) desktop has a handler; sets with the same
\* handlers and the same first property value select the same.
C24_FirstPropertyDecides ==
    Dispatched
    => /\ Chosen = Policy(actions[last.name], last.device, props.fallbackToDesktop)
       /\ \A hs2 \in SelSets :
             (/\ SameHandlers(hs2, actions[last.name])
              /\ FirstValue(hs2) = FirstValue(actions[last.name]))
             => SelectHandler(hs2, last.device, props.fallbackToDesktop) = Chosen

\* a desktop participant and the set written {mobile, vr}: the mobile handler
\* ran, the same handlers written {vr, mobile} select the vr handler
C24_Witness ==
    /\ Dispatched /\ last.device = "desktop"
    /\ actions[last.name] = << <<"mobile", Handler(1, "mobile")>>,
                               <<"vr", Handler(1, "vr")>> >>
    /\ last.invoked = <<Handler(1, "mobile")>>
    /\ \E hs2 \in SelSets :
          /\ SameHandlers(hs2, actions[last.name])
          /\ SelectHandler(hs2, "desktop", props.fallbackToDesktop) = Handler(1, "vr")

Retry == last'.op = "detectDevice" /\ failed[last'.player] = "pending"

\* C26 as stated: a detectDevice that ends in a classification failure or in
\* the skip writes nothing to the cache, and the next detectDevice for the
\* participant reads the raw signal again and, the read succeeding, returns
\* and caches the category of the signal.
C26_NotSticky ==
    /\ [][(last'.op = "detectDevice" /\ ReadFails(last'.player))
          => deviceCache' = deviceCache]_vars
    /\ [][Retry
          => /\ last'.reads = 1
             /\ raw[last'.player] /= "Throws"
                => /\ last'.ret = SimpleType(raw[last'.player])
                   /\ deviceCache' = Put(deviceCache, last'.player, last'.ret)]_vars

\* C26 as amended: such a call writes nothing to the cache, and, no override
\* having written an entry since, the next detectDevice is a miss again: a
\* real participant's signal is read again and, the read succeeding, its
\* category returned and cached; a participant that is no real participant
\* is skipped again: desktop, no read of the signal, nothing cached.
C26_MissAgain ==
    /\ [][(/\ last'.op = "detectDevice"
           /\ last'.player \notin DOMAIN deviceCache
           /\ \/ ~isRealPlayer(last'.player)
              \/ raw[last'.player] = "Throws")
          => deviceCache' = deviceCache /\ last'.ret = "desktop"]_vars
    /\ [][(Retry /\ last'.player \notin DOMAIN deviceCache)
          => LET p == last'.player
             IN IF isRealPlayer(p)
                THEN /\ last'.reads = 1
                     /\ raw[p] /= "Throws"
                        => /\ last'.ret = SimpleType(raw[p])
                           /\ deviceCache' = Put(deviceCache, p, last'.ret)
                ELSE /\ last'.reads = 0
                     /\ last'.ret = "desktop"
                     /\ deviceCache' = deviceCache]_vars
    /\ [][(Retry /\ ~props.enableDeviceOverride)
          => last'.player \notin DOMAIN deviceCache]_vars

\* the signal could not be read, became VR, and the next detectDevice
\* returned and cached vr
C26_Witness ==
    /\ last.op = "detectDevice" /\ last.player = "p1"
    /\ failed["p1"] = "recovered"
    /\ ~props.enableDeviceOverride
    /\ last.reads = 1 /\ last.ret = "vr"
    /\ deviceCache["p1"] = "vr"

\* C27: when the notifications are well-formed (a participant joins once,
\* before any operation names it, leaves once at most, and is named by no
\* operation after its leave), every getPlayerStats snapshot has a total that
\* is at least vr + mobile + desktop and is the number of participants that
\* joined and have not left.
C27_WellFormedStats ==
    /\ getPlayerStats.total >= getPlayerStats.vr + getPlayerStats.mobile
                                 + getPlayerStats.desktop
    /\ getPlayerStats.total = Cardinality(present)
    /\ last.op = "getPlayerStats"
       => /\ last.ret.total >= last.ret.vr + last.ret.mobile + last.ret.desktop
          /\ last.ret.total = Cardinality(present)

\* one participant has left, the other is in the world and its signal could
\* not be read: total 1, no entry
C27_Witness ==
    /\ last.op = "getPlayerStats"
    /\ left /= {} /\ Cardinality(present) = 1
    /\ last.ret = [total |-> 1, vr |-> 0, mobile |-> 0, desktop |-> 0]

\* C28: with two or more doors connected to one InputMapper, a player's
\* interaction with the trigger of a door runs a handler of that door and
\* toggles that door and no other, in whatever order the doors registered.
C28_OwnDoorToggles ==
    [][doorEvent'.op = "triggerInteraction"
       => /\ \A e \in Doors \ {doorEvent'.door} : doors'[e] = doors[e]
          /\ \A i \in DOMAIN last'.invoked :
                last'.invoked[i][1] = doorEvent'.door]_vars

\* door d was asked to toggle by the last event
Requested == {"triggerInteraction", "forceDoorOpen", "forceDoorClose", "autoClose"}

\* C29: while a door is animating, every toggle request (an interaction through
\* a device handler, forceDoorOpen, forceDoorClose, the auto-close timer) leaves
\* its isOpen as it was and starts no animation; no door ever has more than one
\* animation running.
C29_OneAnimation ==
    [][/\ doorEvent'.op \in Requested
          => \A d \in Doors :
                doors[d].isAnimating
                   => /\ doors'[d].isOpen = doors[d].isOpen
                      /\ doors'[d].animations = doors[d].animations
                      /\ doors'[d].isAnimating
       /\ \A d \in Doors : doors'[d].animations <= 1]_vars
\* forceDoorClose was called on an open door in the middle of its opening
\* animation, and the door is still opening
C29_Witness ==
    \E d \in Doors :
       /\ doorEvent.op = "forceDoorClose" /\ doorEvent.door = d
       /\ doors[d].isOpen /\ doors[d].isAnimating /\ doors[d].animations = 1

\* the opening animation of door d has just completed
Opened(d) ==
    /\ doorEvent.op = "animationDone" /\ doorEvent.door = d
    /\ doors[d].isOpen

\* C30: with autoCloseDelay > 0, once a door's opening animation has completed
\* the door eventually begins closing (isOpen becomes false), timers and
\* animation frames that are due being eventually run, whether or not anybody
\* interacts with the door in between.
C30_AutoCloses ==
    \A d \in LiveDoors :
       (Opened(d) /\ doors[d].props.autoCloseDelay > 0) ~> ~doors[d].isOpen
\* the auto-close timer fired and the door is closing
C30_Witness ==
    \E d \in LiveDoors :
       /\ doorEvent.op = "autoClose" /\ doorEvent.door = d
       /\ doors[d].props.autoCloseDelay > 0
       /\ ~doors[d].isOpen /\ doors[d].isAnimating /\ doors[d].frames > 0

\* C31: a pending auto-close timer belongs to a door that has autoCloseDelay > 0
\* and has stayed open and idle since the opening that scheduled it; a toggle
\* cancels it; when it fires it closes the door; a door has at most one
\* pending, and none with autoCloseDelay = 0.
C31_TimerDiscipline ==
    [][\A d \in Doors :
          /\ doors'[d].pending <= 1
          /\ doors'[d].pending > 0
                => /\ doors'[d].props.autoCloseDelay > 0
                   /\ doors'[d].isOpen /\ ~doors'[d].isAnimating
          /\ doors'[d].isOpen /= doors[d].isOpen => doors'[d].pending = 0
          /\ (doorEvent'.op = "autoClose" /\ doorEvent'.door = d)
                => doors[d].isOpen /\ ~doors[d].isAnimating /\ ~doors'[d].isOpen]_vars
\* the timer of a door fired and closed it while the timer of another door,
\* opened as well, is still pending
C31_Witness ==
    \E d \in Doors, e \in Doors :
       /\ d /= e
       /\ doorEvent.op = "autoClose" /\ doorEvent.door = d
       /\ ~doors[d].isOpen /\ doors[d].pending = 0 /\ doors[d].autoCloseTimer = 0
       /\ doors[e].isOpen /\ doors[e].pending = 1

\* C32: after forceDoorOpen() the door is open or opening (isOpen is true),
\* and after forceDoorClose() isOpen is false, whatever the state of the door
\* when the method was called.
C32_ForceSetsState ==
    [][\A d \in Doors :
          /\ (doorEvent'.op = "forceDoorOpen" /\ doorEvent'.door = d) => doors'[d].isOpen
          /\ (doorEvent'.op = "forceDoorClose" /\ doorEvent'.door = d) => ~doors'[d].isOpen]_vars

\* the number of places player p takes in the teams
Places(p) ==
    Cardinality({<<t, i>> \in (DOMAIN teams) \X (1..Cardinality(TeamPlayers) + 1) :
                    i \in DOMAIN teams[t] /\ teams[t][i] = p})

\* C33: after any sequence of assignToTeam and autoBalancePlayers calls every
\* player is in at most one place of at most one team, and right after
\* assignToTeam(p, t) player p is on team t, once, and on no other team.
C33_OneTeamEach ==
    /\ \A p \in TeamPlayers : Places(p) <= 1
    /\ teamEvent.op = "assignToTeam"
          => /\ teamEvent.player \in Members(teams[teamEvent.team])
             /\ \A t \in DOMAIN teams \ {teamEvent.team} :
                   teamEvent.player \notin Members(teams[t])
\* a player was re-assigned to the team it was on, a team mate behind it, and
\* another player was moved from one team to the other
C33_Witness ==
    /\ teamEvent.op = "assignToTeam"
    /\ TeamOf(teamEvent.before, teamEvent.player) = teamEvent.team
    /\ Len(teamEvent.before[teamEvent.team]) = 2
    /\ teamEvent.before[teamEvent.team][1] = teamEvent.player
    /\ teams[teamEvent.team][2] = teamEvent.player

\* C34: right after autoBalancePlayers the teams hold the players of the world
\* and nobody else, each once, the players at even index of world.players on A
\* and those at odd index on B, and A has as many players as B or one more.
C34_RoundRobin ==
    teamEvent.op = "autoBalancePlayers"
       => /\ \A i \in DOMAIN worldPlayers :
                /\ Places(worldPlayers[i]) = 1
                /\ TeamOf(teams, worldPlayers[i]) = IF (i - 1) % 2 = 0 THEN "A" ELSE "B"
          /\ Members(teams["A"]) \cup Members(teams["B"]) = Members(worldPlayers)
          /\ Len(teams["A"]) - Len(teams["B"]) \in {0, 1}
\* three players were balanced, the teams before it holding them otherwise
C34_Witness ==
    /\ teamEvent.op = "autoBalancePlayers"
    /\ Len(worldPlayers) = 3
    /\ Len(teamEvent.before["B"]) = 2
    /\ Len(teams["A"]) = 2 /\ Len(teams["B"]) = 1

\* the calls of run() past the isRunning test
Runs == {fi \in DOMAIN frames : frames[fi].kind = "run"}
\* the number of times frame f called the task function t
Calls(f, t) == Cardinality({k \in DOMAIN f.inv : f.inv[k].id = t.id})
\* f awaited every pushed task it called before it called the next
OneAtATime(f) ==
    \A k \in DOMAIN f.inv :
       (k < Len(f.inv) /\ f.inv[k].kind = "task") => f.inv[k].state /= "pending"

InProgress == {fi \in DOMAIN frames : frames[fi].status = "active"}

\* C36: a call of run() or spread() made while a run or a spread of the stack
\* is in progress returns without calling any task; isRunning is true exactly
\* while a run or a spread is in progress, and never two are.
C36_MutualExclusion ==
    /\ stackEvent.op \in {"runRefused", "spreadRefused"} => stackEvent.started = 0
    /\ isRunning <=> InProgress /= {}
    /\ Cardinality(InProgress) <= 1

\* every task frame fi of spread() called has completed
Completed(fi) ==
    /\ fi \in DOMAIN frames /\ frames[fi].kind = "spread"
    /\ \A k \in DOMAIN frames[fi].inv : frames[fi].inv[k].state = "fulfilled"

\* C37: the promise of a spread() eventually resolves once all the tasks it
\* started have completed, whatever the size of the stack, the empty stack
\* included.
C37_SpreadResolves ==
    \A fi \in 1..MaxCalls :
       Completed(fi) ~> (fi \in DOMAIN frames /\ frames[fi].status = "returned")

====
